---- MODULE Spec2Model ----
(***************************************************************************)
(* Model of rendertron-lite's response normalizer and schema sanitizer     *)
(* (src/src/utils/http.js) and of the handlers that chain them.            *)
(*                                                                         *)
(* JavaScript values are tagged records, one shape per typeof/kind, so     *)
(* that two values of different kinds are always comparable:               *)
(*   undefined, null, boolean b, number n, string s, text x, array a/o,    *)
(*   object o.                                                             *)
(* A "string" is a short atomic string (a field value); a "text" is a      *)
(* string given as the sequence of its lexical units (the raw reply of     *)
(* the model, which JSON.parse scans). Both have typeof "string".          *)
(* An object is a total map from Keys to values, Undef standing for an     *)
(* absent property; an array carries its items and, being an object, its   *)
(* named properties too.                                                   *)
(***************************************************************************)
EXTENDS Integers, Sequences, FiniteSets, TLC

\* ------------------------------------------------------------------ bounds

\* most sections of an input page in the many-sections family
MaxSections == 2
\* most elements of an input section in the many-elements family
MaxElems == 2
\* most lexical units of a raw model reply
MaxLen == 5

\* ------------------------------------------------------------------ values

Keys ==
  {"page_intent", "sections", "id", "type", "section_intent", "elements",
   "text", "alt", "intent", "error", "raw", "status", "message",
   "_screenshot", "_debug", "ok", "deleted"}

Undef == [t |-> "undefined"]
Null == [t |-> "null"]
Bool(b) == [t |-> "boolean", b |-> b]
Num(n) == [t |-> "number", n |-> n]
Str(s) == [t |-> "string", s |-> s]
Text(x) == [t |-> "text", x |-> x]
NoProps == [k \in Keys |-> Undef]
Obj(o) == [t |-> "object", o |-> o]
Arr(a) == [t |-> "array", a |-> a, o |-> NoProps]
NewObj == Obj(NoProps)
\* an object with the given properties and no other
ObjOf(f) == Obj([k \in Keys |-> IF k \in DOMAIN f THEN f[k] ELSE Undef])

\* typeof v === "object" && v !== null  (arrays included)
IsObject(v) == v.t \in {"object", "array"}
\* typeof v === "string"
IsString(v) == v.t \in {"string", "text"}
\* Array.isArray(v)
IsArray(v) == v.t = "array"
\* v == null
IsNullish(v) == v.t \in {"undefined", "null"}

\* !!v
Truthy(v) ==
  CASE v.t = "undefined" -> FALSE
    [] v.t = "null" -> FALSE
    [] v.t = "boolean" -> v.b
    [] v.t = "number" -> v.n # 0
    [] v.t = "string" -> v.s # ""
    [] v.t = "text" -> v.x # <<>>
    [] OTHER -> TRUE

\* v[k] of an object or array; undefined on a missing property
Get(v, k) == v.o[k]
\* v[k] = w
Set(v, k, w) == [v EXCEPT !.o[k] = w]
\* k in v
HasKey(v, k) == v.o[k] # Undef
\* Object.keys(v) restricted to the named properties
OwnKeys(v) == {k \in Keys : v.o[k] # Undef}

\* ------------------------------------------------------- string conversion

Digit(d) ==
  CASE d = 0 -> "0" [] d = 1 -> "1" [] d = 2 -> "2" [] d = 3 -> "3"
    [] d = 4 -> "4" [] d = 5 -> "5" [] d = 6 -> "6" [] d = 7 -> "7"
    [] d = 8 -> "8" [] d = 9 -> "9"

RECURSIVE NatStr(_)
\* String(n) of a natural number
NatStr(n) == IF n < 10 THEN Digit(n) ELSE NatStr(n \div 10) \o Digit(n % 10)

RECURSIVE PadStart(_, _, _)
\* s.padStart(w, c)
PadStart(s, w, c) == IF Len(s) >= w THEN s ELSE PadStart(c \o s, w, c)

RECURSIVE JsString(_)
RECURSIVE JoinItems(_, _)
\* a.join(",") from item j on: null and undefined items give ""
JoinItems(a, j) ==
  IF j > Len(a) THEN ""
  ELSE (IF IsNullish(a[j]) THEN "" ELSE JsString(a[j]))
       \o (IF j < Len(a) THEN "," \o JoinItems(a, j + 1) ELSE "")

\* String(v) of a value that is not a text
JsString(v) ==
  CASE v.t = "undefined" -> "undefined"
    [] v.t = "null" -> "null"
    [] v.t = "boolean" -> IF v.b THEN "true" ELSE "false"
    [] v.t = "number" -> NatStr(v.n)
    [] v.t = "string" -> v.s
    [] v.t = "array" -> JoinItems(v.a, 1)
    [] OTHER -> "[object Object]"

\* String(v) as a value; a text is a string already
ToStr(v) == IF v.t = "text" THEN v ELSE Str(JsString(v))

\* String(v || "")
StrOrEmpty(v) == IF Truthy(v) THEN ToStr(v) ELSE Str("")

\* v == null ? "" : String(v)
StrOrNullish(v) == IF IsNullish(v) THEN Str("") ELSE ToStr(v)

\* --------------------------------------------------------------- sanitizer

\* line 64: if (!e.type) e.type = "TEXT"
ElementType(e) == IF ~Truthy(Get(e, "type")) THEN Str("TEXT") ELSE Get(e, "type")

\* line 65
ElementText(e) ==
  IF ~IsString(Get(e, "text")) THEN StrOrNullish(Get(e, "text")) ELSE Get(e, "text")

\* a sanitizer that leaves alt as it came
ElementAltKept(e) == Get(e, "alt")

\* line 66
ElementAlt(e) ==
  IF ~IsString(Get(e, "alt")) THEN StrOrNullish(Get(e, "alt")) ELSE Get(e, "alt")

\* line 67
ElementIntent(e) ==
  IF ~IsString(Get(e, "intent")) THEN StrOrEmpty(Get(e, "intent")) ELSE Get(e, "intent")

\* the element callback of s.elements.map
SanitizeElement(el) ==
  LET e0 == IF Truthy(el) /\ IsObject(el) THEN el ELSE NewObj
      e1 == Set(e0, "type", ElementType(e0))
      e2 == Set(e1, "text", ElementText(e1))
      e3 == Set(e2, "alt", ElementAlt(e2))
      e4 == Set(e3, "intent", ElementIntent(e3))
  IN e4

RECURSIVE MapElements(_, _)
\* items j.. of a.map(SanitizeElement)
MapElements(a, j) ==
  IF j > Len(a) THEN <<>>
  ELSE <<SanitizeElement(a[j])>> \o MapElements(a, j + 1)

\* an id built without the index
SecIdConst(i) == "sec_" \o PadStart(NatStr(0), 3, "0")

\* an id built without the padding
SecIdUnpadded(i) == "sec_" \o NatStr(i)

\* `sec_${String(i).padStart(3, "0")}`
SecId(i) == "sec_" \o PadStart(NatStr(i), 3, "0")

\* a sanitizer that rewrites every id, the ones it made itself included
SectionIdPrefixed(s, i) ==
  Str("sec_" \o (IF Truthy(Get(s, "id")) THEN JsString(Get(s, "id"))
                 ELSE PadStart(NatStr(i), 3, "0")))

\* line 58: if (!s.id) s.id = ...; i is the array index
SectionId(s, i) == IF ~Truthy(Get(s, "id")) THEN Str(SecId(i)) ELSE Get(s, "id")

\* a sanitizer that leaves type as it came
SectionTypeKept(s) == Get(s, "type")

\* line 59: if (!s.type) s.type = "other"
SectionType(s) == IF ~Truthy(Get(s, "type")) THEN Str("other") ELSE Get(s, "type")

\* line 60
SectionIntent(s) ==
  IF ~IsString(Get(s, "section_intent")) THEN StrOrEmpty(Get(s, "section_intent"))
  ELSE Get(s, "section_intent")

\* lines 61-69: the mapped elements, a fresh array
SectionElements(s) ==
  Arr(MapElements(IF ~IsArray(Get(s, "elements")) THEN <<>> ELSE Get(s, "elements").a, 1))

\* the section callback of obj.sections.map; i is the array index, from 0
SanitizeSection(sec, i) ==
  LET s0 == IF Truthy(sec) /\ IsObject(sec) THEN sec ELSE NewObj
      s1 == Set(s0, "id", SectionId(s0, i))
      s2 == Set(s1, "type", SectionType(s1))
      s3 == Set(s2, "section_intent", SectionIntent(s2))
      s4 == Set(s3, "elements", SectionElements(s3))
  IN s4

RECURSIVE MapSections(_, _)
\* items j.. of a.map(SanitizeSection); item j has array index j - 1
MapSections(a, j) ==
  IF j > Len(a) THEN <<>>
  ELSE <<SanitizeSection(a[j], j - 1)>> \o MapSections(a, j + 1)

\* line 54
PageIntent(obj) ==
  IF ~IsString(Get(obj, "page_intent")) THEN StrOrEmpty(Get(obj, "page_intent"))
  ELSE Get(obj, "page_intent")

\* lines 53 and 56-71: the mapped sections, a fresh array
PageSections(obj) ==
  Arr(MapSections(IF ~IsArray(Get(obj, "sections")) THEN <<>> ELSE Get(obj, "sections").a, 1))

\* the value sanitizeSchema returns
SanitizeSchema(obj) ==
  IF ~Truthy(obj) \/ ~IsObject(obj) THEN obj
  ELSE
    LET o1 == Set(obj, "page_intent", PageIntent(obj))
        o2 == Set(o1, "sections", PageSections(o1))
    IN o2

\* a sanitizer that works on a copy and leaves its argument alone
ArgCopied(obj) == obj

\* what the caller's own reference to the argument shows after the call:
\* every assignment of sanitizeSchema is to obj, to a section of it or to an
\* element of it, and obj itself is returned
ArgAfterSanitize(obj) == SanitizeSchema(obj)

\* ------------------------------------------------------------- JSON texts

\* The lexical units a raw reply is made of: the JSON punctuation (the
\* parser reads the comma too, the replies explored hold none), the digits
\* 0 and 1, one string literal and one unit that no JSON text holds.
StrLit == "\"sections\""
Noise == "x"
Chars == {"{", "}", "[", "]", ":", "0", "1", StrLit, Noise}
Digits == {"0", "1"}

\* the outcome of an operation that raised an exception
Thrown == [t |-> "thrown"]

NoParse == [ok |-> FALSE, v |-> Undef, n |-> 0]
Parsed(v, n) == [ok |-> TRUE, v |-> v, n |-> n]

\* s[i], or "" past the end
At(s, i) == IF i >= 1 /\ i <= Len(s) THEN s[i] ELSE ""

RECURSIVE ParseDigits(_, _, _)
\* the digits from s[i] on, continuing the number acc
ParseDigits(s, i, acc) ==
  IF At(s, i) \in Digits
  THEN ParseDigits(s, i + 1, 10 * acc + (IF s[i] = "1" THEN 1 ELSE 0))
  ELSE Parsed(Num(acc), i)

RECURSIVE ParseValue(_, _)
RECURSIVE ParseItems(_, _, _)
RECURSIVE ParseMembers(_, _, _)

\* the items of an array from s[i] on, after "[" or ","
ParseItems(s, i, acc) ==
  LET r == ParseValue(s, i) IN
  IF ~r.ok THEN NoParse
  ELSE IF At(s, r.n) = "," THEN ParseItems(s, r.n + 1, Append(acc, r.v))
  ELSE IF At(s, r.n) = "]" THEN Parsed(Arr(Append(acc, r.v)), r.n + 1)
  ELSE NoParse

\* the members of an object from s[i] on, after "{" or ","; a repeated key
\* keeps its last value
ParseMembers(s, i, obj) ==
  IF At(s, i) # StrLit \/ At(s, i + 1) # ":" THEN NoParse
  ELSE
    LET r == ParseValue(s, i + 2) IN
    IF ~r.ok THEN NoParse
    ELSE IF At(s, r.n) = "," THEN ParseMembers(s, r.n + 1, Set(obj, "sections", r.v))
    ELSE IF At(s, r.n) = "}" THEN Parsed(Set(obj, "sections", r.v), r.n + 1)
    ELSE NoParse

\* one JSON value starting at s[i]; n is the place after it
ParseValue(s, i) ==
  CASE At(s, i) = "0" -> Parsed(Num(0), i + 1)
    [] At(s, i) = "1" -> ParseDigits(s, i + 1, 1)
    [] At(s, i) = StrLit -> Parsed(Str("sections"), i + 1)
    [] At(s, i) = "[" ->
         IF At(s, i + 1) = "]" THEN Parsed(Arr(<<>>), i + 2)
         ELSE ParseItems(s, i + 1, <<>>)
    [] At(s, i) = "{" ->
         IF At(s, i + 1) = "}" THEN Parsed(NewObj, i + 2)
         ELSE ParseMembers(s, i + 1, NewObj)
    [] OTHER -> NoParse

\* JSON.parse(s): the value, or a SyntaxError
JsonParse(s) ==
  LET r == ParseValue(s, 1) IN
  IF r.ok /\ r.n = Len(s) + 1 THEN r.v ELSE Thrown

\* s is strictly valid JSON text
IsJsonText(s) == JsonParse(s) # Thrown

\* ------------------------------------------------------------ normalizer

\* a parse helper without the try/catch
tryParseJSONUncaught(s) == JsonParse(s)

\* try { return JSON.parse(s); } catch { return null; }
tryParseJSON(s) == IF JsonParse(s) = Thrown THEN Null ELSE JsonParse(s)

RECURSIVE IndexFrom(_, _, _)
\* s.indexOf(c), counting from 0, searching from place i; -1 when absent
IndexFrom(s, c, i) ==
  IF i > Len(s) THEN -1 ELSE IF s[i] = c THEN i - 1 ELSE IndexFrom(s, c, i + 1)

indexOf(s, c) == IndexFrom(s, c, 1)

RECURSIVE LastIndexFrom(_, _, _)
\* s.lastIndexOf(c), counting from 0, searching down from place i
LastIndexFrom(s, c, i) ==
  IF i < 1 THEN -1 ELSE IF s[i] = c THEN i - 1 ELSE LastIndexFrom(s, c, i - 1)

lastIndexOf(s, c) == LastIndexFrom(s, c, Len(s))

\* a slice that stops one place short of b
sliceShort(s, a, b) == SubSeq(s, a + 1, b - 1)

\* s.slice(a, b), places counted from 0, b exclusive
slice(s, a, b) == SubSeq(s, a + 1, b)

ErrorText == "Model did not return valid JSON"

\* the envelope of line 44 for a string reply
Envelope(raw) == ObjOf([error |-> Str(ErrorText), raw |-> raw])

\* lines 33-43: the value found in a string reply, or Undef to fall through
FromString(x) ==
  LET direct == tryParseJSON(x)
      start == indexOf(x, "{")
      end == lastIndexOf(x, "}")
      parsed == tryParseJSON(slice(x, start, end + 1))
  IN IF direct = Thrown THEN Thrown
     ELSE IF Truthy(direct) THEN direct
     ELSE IF start # -1 /\ end # -1 /\ end > start
          THEN (IF parsed = Thrown THEN Thrown
                ELSE IF Truthy(parsed) THEN parsed ELSE Undef)
          ELSE Undef

\* the order in which an object's properties are serialized
KeyOrder ==
  <<"page_intent", "sections", "id", "type", "section_intent", "elements",
    "text", "alt", "intent", "error", "raw", "status", "message",
    "_screenshot", "_debug", "ok", "deleted">>

RECURSIVE DigitsOf(_)
\* the decimal digits of a natural number, one lexical unit each
DigitsOf(n) == IF n < 10 THEN <<Digit(n)>> ELSE Append(DigitsOf(n \div 10), Digit(n % 10))

RECURSIVE Serialize(_)
RECURSIVE SerializeItems(_, _)
RECURSIVE SerializeMembers(_, _, _)

\* the items j.. of an array, comma separated; an undefined item gives null
SerializeItems(a, j) ==
  IF j > Len(a) THEN <<>>
  ELSE (IF j > 1 THEN <<",">> ELSE <<>>)
       \o (IF a[j] = Undef THEN <<"null">> ELSE Serialize(a[j]))
       \o SerializeItems(a, j + 1)

\* the defined properties KeyOrder[j..] of an object, comma separated
SerializeMembers(v, j, first) ==
  IF j > Len(KeyOrder) THEN <<>>
  ELSE IF Get(v, KeyOrder[j]) = Undef THEN SerializeMembers(v, j + 1, first)
  ELSE (IF first THEN <<>> ELSE <<",">>)
       \o <<"\"" \o KeyOrder[j] \o "\"", ":">> \o Serialize(Get(v, KeyOrder[j]))
       \o SerializeMembers(v, j + 1, FALSE)

\* the lexical units of JSON.stringify(v), v not undefined
Serialize(v) ==
  CASE v.t = "null" -> <<"null">>
    [] v.t = "boolean" -> IF v.b THEN <<"true">> ELSE <<"false">>
    [] v.t = "number" -> DigitsOf(v.n)
    [] v.t = "string" -> <<"\"" \o v.s \o "\"">>
    [] v.t = "text" -> <<"\"">> \o v.x \o <<"\"">>
    [] v.t = "array" -> <<"[">> \o SerializeItems(v.a, 1) \o <<"]">>
    [] OTHER -> <<"{">> \o SerializeMembers(v, 1, TRUE) \o <<"}">>

\* JSON.stringify(v)
Stringify(v) == IF v = Undef THEN Undef ELSE Text(Serialize(v))

\* the value normalizeToJSONObject returns, or Thrown when it raises; a
\* string reply is always a text (typeof result === "string", lines 33-43)
normalizeToJSONObject(result) ==
  IF /\ Truthy(result) /\ IsObject(result)
     /\ ~HasKey(result, "raw") /\ ~HasKey(result, "error") /\ ~HasKey(result, "status")
  THEN result
  ELSE
    LET found == IF result.t = "text" THEN FromString(result.x) ELSE Undef IN
    IF found = Thrown THEN Thrown
    ELSE IF found # Undef THEN found
    ELSE Envelope(IF IsString(result) THEN result ELSE Stringify(result))

\* ------------------------------------------------------ sanitizer's inputs

\* the sequences over S of 1 to n items
SeqsUpTo(S, n) == UNION {[1..m -> S] : m \in 1..n}

\* values of every kind a JSON reply can hold at a place, and undefined
\* for a property that is absent
ScalarVals ==
  {Undef, Null, Bool(FALSE), Bool(TRUE), Num(0), Num(7), Str(""), Str("hi"),
   Arr(<<>>), Arr(<<Num(7), Null>>), NewObj}

\* the six section types of ANALYSIS_SCHEMA
SectionTypes == {"header", "hero", "content", "sidebar", "footer", "other"}

ValidElement ==
  ObjOf([type |-> Str("LINK"), text |-> Str("hi"), alt |-> Str(""), intent |-> Str("go")])

ValidSection ==
  ObjOf([id |-> Str("top"), type |-> Str("hero"), section_intent |-> Str("sell"),
         elements |-> Arr(<<ValidElement>>)])

\* elements whose four fields take values of every kind, with and without a
\* property outside the schema
ElemRich ==
  {ObjOf([type |-> ty, text |-> tx, alt |-> al, intent |-> it, raw |-> ex]) :
     ty \in {Undef, Str(""), Str("LINK"), Num(7)},
     tx \in {Undef, Null, Bool(FALSE), Num(0), Num(7), Str("hi")},
     al \in {Undef, Null, Num(0), Str("hi"), NewObj},
     it \in {Undef, Null, Bool(FALSE), Num(0), Num(7), Str("hi")},
     ex \in {Undef, Str("x")}}
  \cup ScalarVals

ElemCoarse == {NewObj, ValidElement, Null, ObjOf([type |-> Num(7), text |-> Num(7)])}

\* sections whose fields take values of every kind
SecRich ==
  {ObjOf([id |-> id, type |-> ty, section_intent |-> si, elements |-> els, status |-> ex]) :
     id \in {Undef, Str(""), Str("sec_000"), Str("a"), Num(7)},
     ty \in {Undef, Str(""), Str("hero"), Str("banana"), Num(7)},
     si \in {Undef, Num(0), Num(7), Str("hi")},
     els \in {Undef, Str("hi"), Arr(<<>>), NewObj},
     ex \in {Undef, Num(7)}}
  \cup ScalarVals

\* sections that carry an id or not, a type or not
SecCoarse ==
  {ObjOf([id |-> id, type |-> ty]) :
     id \in {Undef, Str("sec_001"), Str("a")}, ty \in {Undef, Str("banana")}}
  \cup {Null}

\* the values of obj.sections: not an array, up to MaxSections plain sections
SectionsWide == ScalarVals \cup {Arr(a) : a \in SeqsUpTo(SecCoarse, MaxSections)}

\* the values of obj.sections: one section holding values of every kind, or
\* up to MaxElems elements, or one element holding values of every kind
SectionsDeep ==
  {Arr(<<sec>>) : sec \in SecRich}
  \cup {Arr(<<Set(ValidSection, "elements", Arr(a))>>) : a \in SeqsUpTo(ElemCoarse, MaxElems)}
  \cup {Arr(<<Set(ValidSection, "elements", Arr(<<el>>))>>) : el \in ElemRich}

\* sanitize({sections:[{elements:[{}]}]})
DefaultingExample == ObjOf([sections |-> Arr(<<ObjOf([elements |-> Arr(<<NewObj>>)])>>)])

\* the values handed to sanitizeSchema: every kind of non-object, arrays, and
\* objects with or without page_intent, sections and a key outside the schema
SanInputs ==
  (ScalarVals \ {Undef})
  \cup {DefaultingExample}
  \cup {ObjOf([page_intent |-> pi, sections |-> secs, error |-> er]) :
          pi \in ScalarVals, secs \in SectionsWide, er \in {Undef, Str("boom")}}
  \cup {ObjOf([page_intent |-> Str("hello"), sections |-> secs]) : secs \in SectionsDeep}

\* the texts of up to MaxLen lexical units, the empty text included
Texts == {<<>>} \cup SeqsUpTo(Chars, MaxLen)

\* replies of postToAI that are not strings: a parsed primitive, array or
\* object, and the {error, status} and {raw, status} objects of lines 117-120
\* of the client
NonStringReplies ==
  {Null, Bool(FALSE), Bool(TRUE), Num(0), Num(7), Arr(<<>>), Arr(<<Num(7)>>), NewObj,
   ObjOf([page_intent |-> Str("hello"), sections |-> Arr(<<>>)]),
   ObjOf([error |-> Str("boom"), status |-> Num(7)]),
   ObjOf([raw |-> Text(<<Noise>>), status |-> Num(7)])}

\* objects a reply can carry inside surrounding text
WrappedObjects ==
  {NewObj, ObjOf([sections |-> Num(1)]), ObjOf([sections |-> NewObj]),
   ObjOf([sections |-> Arr(<<Num(0), Num(1)>>)])}

\* what a model writes before the object: nothing, prose, an opening bracket,
\* a stray closing brace
WrapPrefixes == {<<>>, <<Noise>>, <<"[">>, <<"}">>, <<Noise, "}", Noise>>}

\* what a model writes after the object
WrapSuffixes == {<<>>, <<Noise>>, <<"]">>, <<"{">>, <<Noise, "{">>}

\* replies of the form prefix + JSON.stringify(object) + suffix
WrappedTexts ==
  {p \o Serialize(j) \o s : p \in WrapPrefixes, j \in WrappedObjects, s \in WrapSuffixes}

\* the values handed to normalizeToJSONObject
NormInputs == {Text(x) : x \in Texts \cup WrappedTexts} \cup NonStringReplies

\* ------------------------------------------------------------------- state

VARIABLES
  pc,     \* "start", "once", "twice": calls of sanitizeSchema made so far
  x0,     \* the value first passed to sanitizeSchema, as it was before the call
  arg,    \* what the caller's reference to that argument shows now
  ret,    \* the value the last call returned
  ret1,   \* the value the first call returned
  npc,    \* "start", "normalized", "thrown", "done": the handler's place
  reply,  \* the value postToAI returned
  norm,   \* normalizeToJSONObject(reply)
  page,   \* sanitizeSchema(norm), the object the handler answers with
  merge,  \* the run of one merged-structure request
  safe, \* one call of a handler wrapped by safeHandler
  key,  \* two calls of buildCacheKey
  serve, \* two concurrent requests and the cache store they share
  clear, \* one clear-cache request and the store it empties
  prompt, \* the prompts of one merged-structure request
  capture, \* one request of an operation that takes a screenshot
  launch, \* one call of renderPageGetHtml or renderAndScreenshot
  parse \* one page and what the parsers extract from it

sanVars == <<pc, x0, arg, ret, ret1>>
normVars == <<npc, reply, norm, page>>
\* the state of the request handlers
moreVars == <<parse, launch, capture, prompt, clear, serve, key, safe, merge>>
vars == <<pc, x0, arg, ret, ret1, npc, reply, norm, page, merge, safe, key, serve, clear, prompt, capture, launch, parse>>

\* the sanitizer's own state when a specification does not exercise it
SanIdle == pc = "off" /\ x0 = Undef /\ arg = Undef /\ ret = Undef /\ ret1 = Undef
\* the handler's state when a specification does not exercise it
NormIdle == npc = "off" /\ reply = Undef /\ norm = Undef /\ page = Undef
\* the request handlers' state when a specification does not exercise them
MoreIdle == parse = [pc |-> "off"] /\ launch = [pc |-> "off"] /\ capture = [pc |-> "off"] /\ prompt = [pc |-> "off"] /\ clear = [pc |-> "off"] /\ serve = [pc |-> "off"] /\ key = [pc |-> "off"] /\ safe = [pc |-> "off"] /\ merge = [pc |-> "off"]








\* every variable but one, and the state in which all but one subsystem rest
exceptMerge == <<sanVars, normVars, safe, key, serve, clear, prompt, capture, launch, parse>>
IdleExceptMerge == SanIdle /\ NormIdle /\ safe = [pc |-> "off"] /\ key = [pc |-> "off"] /\ serve = [pc |-> "off"] /\ clear = [pc |-> "off"] /\ prompt = [pc |-> "off"] /\ capture = [pc |-> "off"] /\ launch = [pc |-> "off"] /\ parse = [pc |-> "off"]
exceptSafe == <<sanVars, normVars, merge, key, serve, clear, prompt, capture, launch, parse>>
IdleExceptSafe == SanIdle /\ NormIdle /\ merge = [pc |-> "off"] /\ key = [pc |-> "off"] /\ serve = [pc |-> "off"] /\ clear = [pc |-> "off"] /\ prompt = [pc |-> "off"] /\ capture = [pc |-> "off"] /\ launch = [pc |-> "off"] /\ parse = [pc |-> "off"]
exceptKey == <<sanVars, normVars, merge, safe, serve, clear, prompt, capture, launch, parse>>
IdleExceptKey == SanIdle /\ NormIdle /\ merge = [pc |-> "off"] /\ safe = [pc |-> "off"] /\ serve = [pc |-> "off"] /\ clear = [pc |-> "off"] /\ prompt = [pc |-> "off"] /\ capture = [pc |-> "off"] /\ launch = [pc |-> "off"] /\ parse = [pc |-> "off"]
exceptServe == <<sanVars, normVars, merge, safe, key, clear, prompt, capture, launch, parse>>
IdleExceptServe == SanIdle /\ NormIdle /\ merge = [pc |-> "off"] /\ safe = [pc |-> "off"] /\ key = [pc |-> "off"] /\ clear = [pc |-> "off"] /\ prompt = [pc |-> "off"] /\ capture = [pc |-> "off"] /\ launch = [pc |-> "off"] /\ parse = [pc |-> "off"]
exceptClear == <<sanVars, normVars, merge, safe, key, serve, prompt, capture, launch, parse>>
IdleExceptClear == SanIdle /\ NormIdle /\ merge = [pc |-> "off"] /\ safe = [pc |-> "off"] /\ key = [pc |-> "off"] /\ serve = [pc |-> "off"] /\ prompt = [pc |-> "off"] /\ capture = [pc |-> "off"] /\ launch = [pc |-> "off"] /\ parse = [pc |-> "off"]
exceptPrompt == <<sanVars, normVars, merge, safe, key, serve, clear, capture, launch, parse>>
IdleExceptPrompt == SanIdle /\ NormIdle /\ merge = [pc |-> "off"] /\ safe = [pc |-> "off"] /\ key = [pc |-> "off"] /\ serve = [pc |-> "off"] /\ clear = [pc |-> "off"] /\ capture = [pc |-> "off"] /\ launch = [pc |-> "off"] /\ parse = [pc |-> "off"]
exceptCapture == <<sanVars, normVars, merge, safe, key, serve, clear, prompt, launch, parse>>
IdleExceptCapture == SanIdle /\ NormIdle /\ merge = [pc |-> "off"] /\ safe = [pc |-> "off"] /\ key = [pc |-> "off"] /\ serve = [pc |-> "off"] /\ clear = [pc |-> "off"] /\ prompt = [pc |-> "off"] /\ launch = [pc |-> "off"] /\ parse = [pc |-> "off"]
exceptLaunch == <<sanVars, normVars, merge, safe, key, serve, clear, prompt, capture, parse>>
IdleExceptLaunch == SanIdle /\ NormIdle /\ merge = [pc |-> "off"] /\ safe = [pc |-> "off"] /\ key = [pc |-> "off"] /\ serve = [pc |-> "off"] /\ clear = [pc |-> "off"] /\ prompt = [pc |-> "off"] /\ capture = [pc |-> "off"] /\ parse = [pc |-> "off"]
exceptParse == <<sanVars, normVars, merge, safe, key, serve, clear, prompt, capture, launch>>
IdleExceptParse == SanIdle /\ NormIdle /\ merge = [pc |-> "off"] /\ safe = [pc |-> "off"] /\ key = [pc |-> "off"] /\ serve = [pc |-> "off"] /\ clear = [pc |-> "off"] /\ prompt = [pc |-> "off"] /\ capture = [pc |-> "off"] /\ launch = [pc |-> "off"]

SanInit ==
  /\ pc = "start"
  /\ x0 \in SanInputs
  /\ arg = x0
  /\ ret = Undef
  /\ ret1 = Undef
  /\ NormIdle /\ MoreIdle

\* const out = sanitizeSchema(x)
CallSanitize ==
  /\ pc = "start"
  /\ ret' = SanitizeSchema(arg)
  /\ ret1' = ret'
  /\ arg' = ArgAfterSanitize(arg)
  /\ pc' = "once"
  /\ UNCHANGED <<x0, normVars, moreVars>>

\* sanitizeSchema(out), on the value the first call returned
CallSanitizeAgain ==
  /\ pc = "once"
  /\ ret' = SanitizeSchema(ret)
  /\ arg' = ArgAfterSanitize(arg)
  /\ pc' = "twice"
  /\ UNCHANGED <<x0, ret1, normVars, moreVars>>

SanNext == CallSanitize \/ CallSanitizeAgain

SpecSan == SanInit /\ [][SanNext]_vars

NormInit ==
  /\ npc = "start"
  /\ reply \in NormInputs
  /\ norm = Undef
  /\ page = Undef
  /\ SanIdle /\ MoreIdle

\* normalizeToJSONObject(aiResponse)
NormalizeReply ==
  /\ npc = "start"
  /\ norm' = normalizeToJSONObject(reply)
  /\ npc' = IF norm' = Thrown THEN "thrown" ELSE "normalized"
  /\ UNCHANGED <<reply, page, sanVars, moreVars>>

\* const obj = sanitizeSchema(<the normalized reply>)
SanitizeNormalized ==
  /\ npc = "normalized"
  /\ page' = SanitizeSchema(norm)
  /\ npc' = "done"
  /\ UNCHANGED <<reply, norm, sanVars, moreVars>>

NormNext == NormalizeReply \/ SanitizeNormalized

SpecNorm == NormInit /\ [][NormNext]_vars

\* ------------------------------------------------- responses and AI client

\* json(obj, status): a JSON response with that body and status
json(obj, status) == [t |-> "response", status |-> status, body |-> obj]

\* an Error with the given message
ErrorOf(msg) == ObjOf([message |-> Str(msg)])

\* err?.message of a thrown value: a thrown string has none
MessageOf(err) == IF IsObject(err) THEN Get(err, "message") ELSE Undef

\* the wrapper answering nothing special when the handler throws
safeCatchRethrown(err) == Thrown

\* safeHandler's catch: json({ error: err?.message || "Handler failed" }, 500)
safeCatch(err) ==
  json(ObjOf([error |-> IF Truthy(MessageOf(err)) THEN MessageOf(err)
                        ELSE Str("Handler failed")]), 500)

\* safeHandler's guard: a falsy result of the handler becomes a JSON 500
safeReturn(res) ==
  IF ~Truthy(res) THEN json(ObjOf([error |-> Str("Handler returned no response")]), 500)
  ELSE res

\* the HTTP statuses an AI endpoint answers with: one res.ok, two not
AiStatuses == {200, 429, 500}
ResOk(status) == status = 200

\* the bodies an AI endpoint answers with: objects, prose, nothing
AiBodies ==
  {<<"{", "}">>, <<"{", StrLit, ":", "[", "]", "}">>, <<Noise>>, <<>>}

\* a client that raises on a non-success status
postToAIStrict(status, raw) ==
  IF ~ResOk(status) THEN Thrown
  ELSE IF JsonParse(raw) = Thrown THEN ObjOf([raw |-> Text(raw), status |-> Num(status)])
  ELSE JsonParse(raw)

\* lines 115-126 of the client for a generic endpoint: the value postToAI
\* returns for a response with this status and body
postToAIReturn(status, raw) ==
  LET parsed == JsonParse(raw) IN
  IF parsed = Thrown
  THEN IF ~ResOk(status)
       THEN ObjOf([error |-> ObjOf([message |-> IF raw # <<>> THEN Text(raw)
                                                ELSE Str("AI request failed")]),
                   status |-> Num(status)])
       ELSE ObjOf([raw |-> Text(raw), status |-> Num(status)])
  ELSE IF ~ResOk(status)
       THEN ObjOf([error |-> IF IsObject(parsed) /\ Truthy(Get(parsed, "error"))
                             THEN Get(parsed, "error") ELSE parsed,
                   status |-> Num(status)])
       ELSE parsed

\* the reason the timer aborts the call with (client line 72)
AbortReason == Str("AI request timed out")

\* errors the browser and the network raise
RenderError == ErrorOf("Navigation failed")
NetworkError == ErrorOf("fetch failed")

\* -------------------------------------------------- merged-structure run

\* The external operations of the pipeline, in the order of the source.
MergeOps == <<"render", "screenshot", "vision", "merge">>

\* the two AI calls
AiCalls == {"vision", "merge"}

\* a run that has not begun: bindings, parameters, and nothing done
MergeRun(browser, endpoint, target, shot, debug) ==
  [pc |-> "start",             \* "start", an operation awaited, "done"
   MYBROWSER |-> browser,      \* env.MYBROWSER is bound
   AI_ENDPOINT |-> endpoint,   \* env.AI_ENDPOINT is set
   target |-> target,          \* params.target
   includeScreenshot |-> shot, \* params.includeScreenshot === "true"
   debug |-> debug,            \* params.debug === "true"
   started |-> <<>>,           \* external operations started, in order
   completed |-> <<>>,         \* external operations that returned a value
   phase |-> "none",           \* of an AI call: "fetch", "body", "none"
   status |-> [c \in AiCalls |-> 0],      \* res.status once the fetch resolved
   timer |-> [c \in AiCalls |-> "unset"],  \* "armed", "fired", "cleared"
   returned |-> [c \in AiCalls |-> Undef], \* what postToAI returned
   visionStructure |-> Undef,
   resp |-> Undef]             \* the response safeHandler gives

\* the handler raised err: safeHandler's catch answers
MergeThrow(m, err) == [m EXCEPT !.pc = "done", !.phase = "none", !.resp = safeCatch(err)]

\* a signal that is not handed to the fetch: the call goes on
AbortIgnored(m, c) == [m EXCEPT !.timer[c] = "fired"]

\* client lines 72, 108: the timer aborts the signal of call c, the fetch
\* rejects with the reason, and the rejection leaves postToAI and the handler
Abort(m, c) == MergeThrow([m EXCEPT !.timer[c] = "fired"], AbortReason)

\* a client that sends the request again
StartAiCallRetried(m, c) ==
  [m EXCEPT !.pc = c, !.started = Append(Append(@, c), c), !.phase = "fetch", !.timer[c] = "armed"]

\* postToAI begins (client lines 71-104): the timer is armed, the fetch sent
StartAiCall(m, c) ==
  [m EXCEPT !.pc = c, !.started = Append(@, c), !.phase = "fetch", !.timer[c] = "armed"]

\* lines 113-124: the screenshot and the debug structures attached when
\* asked for (the screenshot as one token, the debug entry as the vision
\* structure), then json(mergedObj, 200)
MergedResponse(m, mergedObj) ==
  LET o1 == IF m.includeScreenshot THEN Set(mergedObj, "_screenshot", Str("base64")) ELSE mergedObj
      o2 == IF m.debug THEN Set(o1, "_debug", m.visionStructure) ELSE o1
  IN json(o2, 200)

\* lines 18-29: the three guards, then the render is started
MergeStart ==
  /\ merge.pc = "start"
  /\ merge' =
       IF ~merge.MYBROWSER
       THEN [merge EXCEPT !.pc = "done",
               !.resp = safeReturn(json(ObjOf([error |-> Str("Missing MYBROWSER binding")]), 500))]
       ELSE IF ~merge.AI_ENDPOINT
       THEN [merge EXCEPT !.pc = "done",
               !.resp = safeReturn(json(ObjOf([error |-> Str("Missing AI_ENDPOINT env var")]), 500))]
       ELSE IF ~Truthy(merge.target)
       THEN [merge EXCEPT !.pc = "done",
               !.resp = safeReturn(json(ObjOf([error |-> Str("Missing 'target' parameter")]), 400))]
       ELSE [merge EXCEPT !.pc = "render", !.started = Append(@, "render")]
  /\ UNCHANGED exceptMerge

\* lines 29-48: the render resolved; the DOM is parsed, the screenshot started
RenderDone ==
  /\ merge.pc = "render"
  /\ merge' = [merge EXCEPT !.pc = "screenshot", !.completed = Append(@, "render"),
                            !.started = Append(@, "screenshot")]
  /\ UNCHANGED exceptMerge

\* line 29 or 48: the browser raised
BrowserThrows ==
  /\ merge.pc \in {"render", "screenshot"}
  /\ merge' = MergeThrow(merge, RenderError)
  /\ UNCHANGED exceptMerge

\* lines 48-73: the screenshot resolved; the vision prompt is built and
\* postToAI called
ScreenshotDone ==
  /\ merge.pc = "screenshot"
  /\ merge' = StartAiCall([merge EXCEPT !.completed = Append(@, "screenshot")], "vision")
  /\ UNCHANGED exceptMerge

\* client line 104: the fetch resolved with a status; the body is awaited
FetchResolves ==
  /\ merge.pc \in AiCalls /\ merge.phase = "fetch"
  /\ \E st \in AiStatuses : merge' = [merge EXCEPT !.phase = "body", !.status[merge.pc] = st]
  /\ UNCHANGED exceptMerge

\* client lines 104, 111: the fetch or the reading of the body rejected; the
\* finally clears the timer and the error leaves postToAI and the handler
FetchRejects ==
  /\ merge.pc \in AiCalls /\ merge.phase \in {"fetch", "body"}
  /\ merge' = MergeThrow([merge EXCEPT !.timer[merge.pc] = "cleared"], NetworkError)
  /\ UNCHANGED exceptMerge

\* client line 72: the timeout elapsed with the call in flight; the signal
\* aborts the fetch, which rejects with the reason
TimerFires ==
  /\ merge.pc \in AiCalls /\ merge.timer[merge.pc] = "armed"
  /\ merge' = Abort(merge, merge.pc)
  /\ UNCHANGED exceptMerge

\* client lines 111-129 and handler lines 73-97: the vision call returned;
\* its value is normalized and sanitized and the merge call started
VisionReturns ==
  /\ merge.pc = "vision" /\ merge.phase = "body"
  /\ \E raw \in AiBodies :
       LET v == postToAIReturn(merge.status[merge.pc], raw)
           m1 == [merge EXCEPT !.timer["vision"] = "cleared"]
       IN merge' =
            IF v = Thrown THEN MergeThrow(m1, NetworkError)
            ELSE StartAiCall([m1 EXCEPT !.completed = Append(@, "vision"),
                                        !.returned["vision"] = v,
                                        !.visionStructure = SanitizeSchema(normalizeToJSONObject(v))],
                             "merge")
  /\ UNCHANGED exceptMerge

\* client lines 111-129 and handler lines 97-124: the merge call returned;
\* its value is normalized and sanitized and answered with status 200
MergeReturns ==
  /\ merge.pc = "merge" /\ merge.phase = "body"
  /\ \E raw \in AiBodies :
       LET v == postToAIReturn(merge.status[merge.pc], raw)
           m1 == [merge EXCEPT !.timer["merge"] = "cleared"]
       IN merge' =
            IF v = Thrown THEN MergeThrow(m1, NetworkError)
            ELSE [m1 EXCEPT !.pc = "done", !.phase = "none",
                            !.completed = Append(@, "merge"),
                            !.returned["merge"] = v,
                            !.resp = safeReturn(MergedResponse(m1, SanitizeSchema(normalizeToJSONObject(v))))]
  /\ UNCHANGED exceptMerge

MergeInit ==
  /\ merge \in {MergeRun(b, e, t, s, d) :
                   b \in BOOLEAN, e \in BOOLEAN, t \in {Undef, Str("https://a")},
                   s \in BOOLEAN, d \in BOOLEAN}
  /\ IdleExceptMerge

MergeNext ==
  \/ MergeStart \/ RenderDone \/ BrowserThrows \/ ScreenshotDone
  \/ FetchResolves \/ FetchRejects \/ TimerFires \/ VisionReturns \/ MergeReturns

SpecMerge == MergeInit /\ [][MergeNext]_vars

\* ---------------------------------------------------------- safeHandler

\* the statuses and bodies of the responses a handler gives
HandlerStatuses == {200, 204, 400, 404, 500}
HandlerBodies ==
  {NewObj, ObjOf([error |-> Str("Missing 'target' parameter")]),
   ObjOf([page_intent |-> Str("hello"), sections |-> Arr(<<>>)]),
   Null, Str("<html>"), Text(<<Noise>>)}

\* what a handler can throw: errors with and without a message, the abort
\* reason (a string), null and undefined
HandlerThrows ==
  {ErrorOf("boom"), ErrorOf(""), RenderError, NetworkError, AbortReason, Str(""), Null, Undef}

\* how the wrapped handler settles: it returns a response, null or
\* undefined, or it throws
HandlerOutcomes ==
  {[kind |-> "returns", v |-> [t |-> "response", status |-> st, body |-> b]] :
     st \in HandlerStatuses, b \in HandlerBodies}
  \cup {[kind |-> "returns", v |-> v] : v \in {Null, Undef}}
  \cup {[kind |-> "throws", v |-> e] : e \in HandlerThrows}

\* lines 10-20: what the wrapper returns for a handler that settled so
safeHandler(outcome) ==
  IF outcome.kind = "throws" THEN safeCatch(outcome.v) ELSE safeReturn(outcome.v)

SafeInit ==
  /\ safe \in {[pc |-> "start", fn |-> o, result |-> Undef] : o \in HandlerOutcomes}
  /\ IdleExceptSafe

\* line 11: the wrapper calls the handler and awaits it
SafeCall ==
  /\ safe.pc = "start"
  /\ safe' = [safe EXCEPT !.pc = "awaiting"]
  /\ UNCHANGED exceptSafe

\* lines 11-20: the handler settled; the wrapper returns
SafeSettle ==
  /\ safe.pc = "awaiting"
  /\ safe' = [safe EXCEPT !.pc = "returned", !.result = safeHandler(safe.fn)]
  /\ UNCHANGED exceptSafe

SafeNext == SafeCall \/ SafeSettle

SpecSafe == SafeInit /\ [][SafeNext]_vars

\* ------------------------------------------------------ cache fingerprint

\* most characters of a target in the fingerprint's inputs
MaxUrl == 2

\* The strings the fingerprint is computed from are sequences of
\* characters, the backslash and the backtick written as units of their own.
Backslash == "<backslash>"
Backtick == "<backtick>"

\* the printable ASCII characters, from code 32 on
Printable ==
  <<" ", "!", "\"", "#", "$", "%", "&", "'", "(", ")", "*", "+",
    ",", "-", ".", "/", "0", "1", "2", "3", "4", "5", "6", "7",
    "8", "9", ":", ";", "<", "=", ">", "?", "@", "A", "B", "C",
    "D", "E", "F", "G", "H", "I", "J", "K", "L", "M", "N", "O",
    "P", "Q", "R", "S", "T", "U", "V", "W", "X", "Y", "Z", "[",
    Backslash, "]", "^", "_", Backtick, "a", "b", "c", "d", "e", "f", "g",
    "h", "i", "j", "k", "l", "m", "n", "o", "p", "q", "r", "s",
    "t", "u", "v", "w", "x", "y", "z", "{", "|", "}", "~">>

\* c.charCodeAt(0)
CharCode(c) == 31 + (CHOOSE i \in 1..Len(Printable) : Printable[i] = c)

\* A 32-bit unsigned number is kept as two 16-bit halves.
Half == 65536
U32(hi, lo) == [hi |-> hi, lo |-> lo]

\* lines 8-9: h = ((h << 5) + h) + code; h = h & 0xffffffff
HashStep(h, code) ==
  LET lo == 33 * h.lo + code IN U32((33 * h.hi + lo \div Half) % Half, lo % Half)

RECURSIVE HashFrom(_, _, _)
\* the loop of lines 7-10 from place i on (the test of h.lo, never true,
\* has h computed at every turn of the loop)
HashFrom(str, i, h) ==
  IF i > Len(str) \/ h.lo < 0 THEN h ELSE HashFrom(str, i + 1, HashStep(h, CharCode(str[i])))

Digits36 ==
  <<"0", "1", "2", "3", "4", "5", "6", "7", "8", "9", "a", "b", "c", "d", "e", "f", "g", "h",
    "i", "j", "k", "l", "m", "n", "o", "p", "q", "r", "s", "t", "u", "v", "w", "x", "y", "z">>

RECURSIVE Base36(_)
\* (h >>> 0).toString(36)
Base36(h) ==
  LET mid == (h.hi % 36) * Half + h.lo
      q == U32(h.hi \div 36, mid \div 36)
      d == Digits36[(mid % 36) + 1]
  IN IF q = U32(0, 0) THEN <<d>> ELSE Append(Base36(q), d)

\* lines 5-13: djb2 from seed 5381, in base 36
hashString(str) == Base36(HashFrom(str, 1, U32(0, 5381)))

\* line 17
allowlist ==
  <<<<"t", "a", "r", "g", "e", "t">>,
    <<"v", "i", "e", "w", "p", "o", "r", "t", "W", "i", "d", "t", "h">>,
    <<"v", "i", "e", "w", "p", "o", "r", "t", "H", "e", "i", "g", "h", "t">>,
    <<"f", "u", "l", "l", "P", "a", "g", "e">>,
    <<"i", "m", "a", "g", "e", "T", "y", "p", "e">>,
    <<"i", "m", "a", "g", "e", "Q", "u", "a", "l", "i", "t", "y">>,
    <<"w", "a", "i", "t", "M", "s">>,
    <<"s", "e", "l", "e", "c", "t", "o", "r", "T", "o", "W", "a", "i", "t", "F", "o", "r">>,
    <<"m", "o", "d", "e", "l">>,
    <<"f", "o", "r", "m", "a", "t">>,
    <<"p", "r", "o", "m", "p", "t">>,
    <<"i", "n", "c", "l", "u", "d", "e", "S", "c", "r", "e", "e", "n", "s", "h", "o", "t">>>>

\* a parameter the allow-list does not hold
DebugParam == <<"d", "e", "b", "u", "g">>

ParamNames == {allowlist[i] : i \in 1..Len(allowlist)} \cup {DebugParam}

\* String(v) of a parameter value: a string as it is, a number in decimal,
\* a boolean as true or false
String(v) ==
  CASE v.t = "text" -> v.x
    [] v.t = "number" -> DigitsOf(v.n)
    [] v.t = "boolean" -> IF v.b THEN <<"t", "r", "u", "e">> ELSE <<"f", "a", "l", "s", "e">>
    [] OTHER -> <<>>

RECURSIVE Quoted(_)
\* the inside of a JSON string literal: quote and backslash escaped
Quoted(str) ==
  IF str = <<>> THEN <<>>
  ELSE (IF Head(str) \in {"\"", Backslash} THEN <<Backslash, Head(str)>> ELSE <<Head(str)>>)
       \o Quoted(Tail(str))

\* "name":"value"
Member(name, str) == <<"\"">> \o Quoted(name) \o <<"\"", ":", "\"">> \o Quoted(str) \o <<"\"">>

\* a selection that takes every parameter of the request
SelectedAll(params, k) == params[k].t \notin {"undefined", "null"}

\* lines 18-21: parameter k goes into base when params[k] != null
Selected(params, k) == k # DebugParam /\ params[k].t \notin {"undefined", "null"}

RECURSIVE BaseMembers(_, _)
\* the members of base from allow-list place i on, each after a comma
BaseMembers(params, i) ==
  IF i > Len(allowlist) THEN
    IF Selected(params, DebugParam)
    THEN <<",">> \o Member(DebugParam, String(params[DebugParam])) ELSE <<>>
  ELSE (IF Selected(params, allowlist[i])
        THEN <<",">> \o Member(allowlist[i], String(params[allowlist[i]])) ELSE <<>>)
       \o BaseMembers(params, i + 1)

\* line 26: JSON.stringify({ output, ...base })
RawKey(output, params) ==
  <<"{">> \o Member(<<"o", "u", "t", "p", "u", "t">>, output) \o BaseMembers(params, 1) \o <<"}">>

\* lines 16-30
buildCacheKey(output, params) == output \o <<":">> \o hashString(RawKey(output, params))

\* the operations whose handlers build a key
OutputName ==
  [html |-> <<"h", "t", "m", "l">>,
   structure |-> <<"s", "t", "r", "u", "c", "t", "u", "r", "e">>,
   screenshot |-> <<"s", "c", "r", "e", "e", "n", "s", "h", "o", "t">>]
KeyOutputs == {OutputName.html, OutputName.structure}

\* the targets of up to MaxUrl characters, a quote among them
Targets == {Text(x) : x \in {<<>>} \cup SeqsUpTo({"a", "\""}, MaxUrl)}

\* the parameter sets of the requests: target absent, null, a string or a
\* number; fullPage absent, a string or a boolean; debug absent or set
KeyParams ==
  {[k \in ParamNames |->
      IF k = allowlist[1] THEN t
      ELSE IF k = allowlist[4] THEN f
      ELSE IF k = DebugParam THEN dbg
      ELSE Undef] :
     t \in Targets \cup {Undef, Null, Num(1), Text(<<"1">>)},
     f \in {Undef, Text(<<"t", "r", "u", "e">>), Bool(TRUE)},
     dbg \in {Undef, Text(<<"t", "r", "u", "e">>)}}

KeyInit ==
  /\ key \in {[pc |-> "start", output |-> o, p1 |-> p, p2 |-> q, k1 |-> <<>>, k2 |-> <<>>] :
                 o \in KeyOutputs, p \in KeyParams, q \in KeyParams}
  /\ IdleExceptKey

\* const cacheKey = buildCacheKey(output, params), by one request
BuildFirst ==
  /\ key.pc = "start"
  /\ key' = [key EXCEPT !.pc = "one", !.k1 = buildCacheKey(key.output, key.p1)]
  /\ UNCHANGED exceptKey

\* the same line, by another request
BuildSecond ==
  /\ key.pc = "one"
  /\ key' = [key EXCEPT !.pc = "both", !.k2 = buildCacheKey(key.output, key.p2)]
  /\ UNCHANGED exceptKey

KeyNext == BuildFirst \/ BuildSecond

SpecKey == KeyInit /\ [][KeyNext]_vars

\* ------------------------------------------------ requests and the cache

\* The requests served at the same time.
Reqs == {1, 2}

\* OUTPUT_MODES but clear-cache ("ai" is the other name of
\* screenshotandai-describe)
Outputs ==
  {"html", "structure", "screenshot", "ai-describe", "screenshotandai-describe",
   "merged-structure"}

\* the handlers that call buildCacheKey, cacheGet and cachePut
CachedOutputs == {"html", "structure", "screenshot"}

\* a handler whose every output is bracketed by the cache
CachedOutputsAll == Outputs

\* the external operations each handler awaits, in order
ExternalOps ==
  [o \in Outputs |->
     CASE o \in {"html", "structure"} -> <<"render">>
       [] o = "screenshot" -> <<"screenshot">>
       [] o = "ai-describe" -> <<"ai">>
       [] o = "screenshotandai-describe" -> <<"screenshot", "ai">>
       [] OTHER -> MergeOps]

\* the versions of the page a render can see
Versions == {1, 2}

\* the parameters of a request with this target and nothing else
ParamsOf(target) == [k \in ParamNames |-> IF k = allowlist[1] THEN target ELSE Undef]

\* the final output of the work of a handler on version v of the page: the
\* html, parseHTML's structure, the screenshot's bytes, the analysed page
OutputOf(o, v) ==
  CASE o = "html" -> Text(<<"<p>", Digit(v)>>)
    [] o = "structure" -> ObjOf([sections |-> Arr(<<Num(v)>>)])
    [] o = "screenshot" -> Text(<<"png", Digit(v)>>)
    [] OTHER -> ObjOf([page_intent |-> Str(""), sections |-> Arr(<<>>)])

\* toBase64(bytes) and its inverse, atob
toBase64(bytes) == Text(<<"base64">> \o bytes.x)
atob(str) == Text(Tail(str.x))

\* the string a handler stores for its output (html.js:28, structure.js:22,
\* screenshot.js:51)
CacheValueOf(o, out) ==
  CASE o = "html" -> out
    [] o = "structure" -> Stringify(out)
    [] OTHER -> toBase64(out)

\* the body a handler answers with on a hit (html.js:12, structure.js:13,
\* screenshot.js:13)
BodyOfCached(o, cached) ==
  CASE o = "html" -> cached
    [] o = "structure" -> JsonParse(cached.x)
    [] OTHER -> atob(cached)

\* the entry of the store under key k, or null
Lookup(store, k) ==
  IF \E e \in store : e.k = k THEN (CHOOSE e \in store : e.k = k).v ELSE Null

\* a put that leaves an entry already there alone
StoredIfAbsent(store, k, v) ==
  IF \E e \in store : e.k = k THEN store ELSE store \cup {[k |-> k, v |-> v]}

\* the store after put(k, v)
Stored(store, k, v) == {e \in store : e.k # k} \cup {[k |-> k, v |-> v]}

\* a request that has not begun
NewReq(o, target, image) ==
  [output |-> o,
   target |-> target,        \* params.target
   image |-> image,          \* params.imageBase64 is given (ai-describe)
   pc |-> "start",           \* "start", "get", "work", "put", "done"
   cacheKey |-> <<>>,
   hit |-> FALSE,            \* cacheGet returned a truthy value
   step |-> 0,               \* the external operation awaited
   out |-> Undef,            \* the final output of the work
   trace |-> <<>>,           \* cache and external operations begun, in order
   resp |-> Undef]

\* the response to a handler that threw: safeHandler's, or ai-describe's own
\* catch (index.js:75-78)
ThrowResponse(o, err) ==
  IF o = "ai-describe"
  THEN json(ObjOf([error |-> IF Truthy(MessageOf(err)) THEN MessageOf(err)
                             ELSE Str("AI describe failed")]), 500)
  ELSE safeCatch(err)

\* guards that let a request without a target through
GuardsWithoutTarget(r) ==
  IF r.output \in {"screenshot", "screenshotandai-describe", "merged-structure"}
     /\ ~serve.env.MYBROWSER
  THEN json(ObjOf([error |-> Str("Missing MYBROWSER binding")]), 500)
  ELSE IF r.output \in {"ai-describe", "screenshotandai-describe", "merged-structure"}
          /\ ~serve.env.AI_ENDPOINT
  THEN json(ObjOf([error |-> Str("Missing AI_ENDPOINT env var")]), 500)
  ELSE IF r.output = "ai-describe" /\ ~r.image
  THEN json(ObjOf([error |-> Str("Missing 'imageBase64' parameter for ai-describe")]), 400)
  ELSE Undef

\* the handler's guards before its work: the response they give, or Undef
Guards(r) ==
  IF r.output \in {"screenshot", "screenshotandai-describe", "merged-structure"}
     /\ ~serve.env.MYBROWSER
  THEN json(ObjOf([error |-> Str("Missing MYBROWSER binding")]), 500)
  ELSE IF r.output \in {"ai-describe", "screenshotandai-describe", "merged-structure"}
          /\ ~serve.env.AI_ENDPOINT
  THEN json(ObjOf([error |-> Str("Missing AI_ENDPOINT env var")]), 500)
  ELSE IF r.output = "ai-describe" /\ ~r.image
  THEN json(ObjOf([error |-> Str("Missing 'imageBase64' parameter for ai-describe")]), 400)
  ELSE IF r.output # "ai-describe" /\ ~Truthy(r.target)
  THEN json(ObjOf([error |-> Str("Missing 'target' parameter")]), 400)
  ELSE Undef

\* the request after its guards: answered, or awaiting its first operation
AfterGuards(r) ==
  IF Guards(r) # Undef THEN [r EXCEPT !.pc = "done", !.resp = Guards(r)]
  ELSE [r EXCEPT !.pc = "work", !.step = 1,
                 !.trace = Append(@, ExternalOps[r.output][1])]

\* index.js:40-84 and the handler's first lines: a handler with a cache
\* builds its key and calls cacheGet, another goes to its guards
Begin(i) ==
  LET r == serve.reqs[i] IN
  /\ r.pc = "start"
  /\ serve' = [serve EXCEPT !.reqs[i] =
       IF r.output \in CachedOutputs
       THEN [r EXCEPT !.pc = "get", !.trace = Append(@, "get"),
                      !.cacheKey = buildCacheKey(OutputName[r.output], ParamsOf(r.target))]
       ELSE AfterGuards(r)]
  /\ UNCHANGED exceptServe

\* cache.js:32-40 and the handler's lines after it: cacheGet returns null
\* without a store or when get fails, else the entry; a truthy value is
\* answered, else the guards are passed and the work begun
GetReturns(i) ==
  LET r == serve.reqs[i] IN
  /\ r.pc = "get"
  /\ \E ok \in BOOLEAN :
       LET cached == IF serve.env.KV_CACHE /\ ok THEN Lookup(serve.store, r.cacheKey) ELSE Null IN
       /\ (~serve.env.KV_CACHE) => ok
       /\ serve' = [serve EXCEPT !.reqs[i] =
            IF Truthy(cached)
            THEN [r EXCEPT !.pc = "done", !.hit = TRUE,
                           !.resp = IF BodyOfCached(r.output, cached) = Thrown
                                    THEN safeCatch(ErrorOf("Unexpected token"))
                                    ELSE safeReturn(json(BodyOfCached(r.output, cached), 200))]
            ELSE AfterGuards(r)]
  /\ UNCHANGED exceptServe

\* the external operation awaited resolved: the next one is begun, or the
\* output is final and, by a handler with a cache, cachePut is called
OpDone(i) ==
  LET r == serve.reqs[i]
      ops == ExternalOps[r.output] IN
  /\ r.pc = "work"
  /\ \E v \in Versions :
       serve' = [serve EXCEPT !.reqs[i] =
         IF r.step < Len(ops)
         THEN [r EXCEPT !.step = @ + 1, !.trace = Append(@, ops[r.step + 1])]
         ELSE IF r.output \in CachedOutputs
         THEN [r EXCEPT !.pc = "put", !.out = OutputOf(r.output, v), !.trace = Append(@, "put")]
         ELSE [r EXCEPT !.pc = "done", !.out = OutputOf(r.output, v),
                        !.resp = safeReturn(json(OutputOf(r.output, v), 200))]]
  /\ UNCHANGED exceptServe

\* a failure that is stored in the cache before it is answered
OpFailsStored(i) ==
  LET r == serve.reqs[i] IN
  /\ r.pc = "work"
  /\ serve' = [serve EXCEPT
       !.store = IF r.output \in CachedOutputs
                 THEN Stored(@, r.cacheKey, Text(<<"error">>)) ELSE @,
       !.writes = IF r.output \in CachedOutputs THEN Append(@, i) ELSE @,
       !.reqs[i] = [r EXCEPT !.pc = "done", !.resp = ThrowResponse(r.output, NetworkError)]]
  /\ UNCHANGED exceptServe

\* the external operation awaited rejected
OpFails(i) ==
  LET r == serve.reqs[i] IN
  /\ r.pc = "work"
  /\ serve' = [serve EXCEPT !.reqs[i] =
       [r EXCEPT !.pc = "done", !.resp = ThrowResponse(r.output, NetworkError)]]
  /\ UNCHANGED exceptServe

\* cache.js:42-49 and the handler's last lines: put writes the entry, or
\* fails and is only logged, or there is no store; the output is answered
PutReturns(i) ==
  LET r == serve.reqs[i] IN
  /\ r.pc = "put"
  /\ \E ok \in BOOLEAN :
       /\ (~serve.env.KV_CACHE) => ~ok
       /\ serve' = [serve EXCEPT
            !.store = IF ok THEN Stored(@, r.cacheKey, CacheValueOf(r.output, r.out)) ELSE @,
            !.writes = IF ok THEN Append(@, i) ELSE @,
            !.reqs[i] = [r EXCEPT !.pc = "done", !.resp = safeReturn(json(r.out, 200))]]
  /\ UNCHANGED exceptServe

\* Two requests of one operation; the second for the same target or for
\* none (absent, null as a GET reads it, or empty).
ServeInit ==
  /\ serve \in
       {[pc |-> "on",
         env |-> [MYBROWSER |-> br, AI_ENDPOINT |-> ai, KV_CACHE |-> kv],
         store |-> {},
         writes |-> <<>>,   \* the requests whose put took effect, in order
         reqs |-> [i \in Reqs |-> IF i = 1 THEN NewReq(o, Text(<<"a">>), TRUE)
                                   ELSE NewReq(o, t, img)]] :
          br \in BOOLEAN, ai \in BOOLEAN, kv \in BOOLEAN, o \in Outputs,
          t \in {Undef, Null, Text(<<>>), Text(<<"a">>)}, img \in BOOLEAN}
  /\ IdleExceptServe

ServeNext ==
  \E i \in Reqs : Begin(i) \/ GetReturns(i) \/ OpDone(i) \/ OpFails(i) \/ PutReturns(i)

SpecServe == ServeInit /\ [][ServeNext]_vars

\* ------------------------------------------------------------ clear-cache

\* most keys in the store before the call
MaxKeys == 3
\* most keys one call of list returns
PageLimit == 2

\* the keys a store can hold
CacheKeys == {<<"a">>, <<"a", "a">>, <<"a", "b">>, <<"b">>, <<"b", "a">>}

\* the stores of up to MaxKeys keys
Stores == {S \in SUBSET CacheKeys : Cardinality(S) <= MaxKeys}

\* the prefix parameter of the request: absent, blank, padded, plain
Prefixes == {<<>>, <<" ">>, <<"a">>, <<" ", "a", " ">>, <<"a", "b">>, <<"b">>, <<"c">>}

RECURSIVE Trim(_)
\* str.trim()
Trim(str) ==
  IF str = <<>> THEN str
  ELSE IF Head(str) = " " THEN Trim(Tail(str))
  ELSE IF str[Len(str)] = " " THEN Trim(SubSeq(str, 1, Len(str) - 1))
  ELSE str

\* k.startsWith(prefix): the keys list({ prefix }) selects
StartsWith(k, prefix) == Len(prefix) <= Len(k) /\ SubSeq(k, 1, Len(prefix)) = prefix

RECURSIVE Before(_, _)
\* a comes before b in the order list returns keys in
Before(a, b) ==
  IF a = <<>> THEN b # <<>>
  ELSE IF b = <<>> THEN FALSE
  ELSE IF Head(a) = Head(b) THEN Before(Tail(a), Tail(b))
  ELSE CharCode(Head(a)) < CharCode(Head(b))

RECURSIVE Sorted(_)
\* the keys of S in that order
Sorted(S) ==
  IF S = {} THEN <<>>
  ELSE LET least == CHOOSE k \in S : \A j \in S \ {k} : Before(k, j)
       IN <<least>> \o Sorted(S \ {least})

\* list({ prefix, cursor }): the next keys with the prefix after the cursor,
\* PageLimit at most, and a cursor when more remain
ListKeys(store, prefix, cursor) ==
  LET rest == Sorted({k \in store : StartsWith(k, prefix)
                                    /\ (cursor = Undef \/ Before(cursor.x, k))})
      names == SubSeq(rest, 1, IF Len(rest) < PageLimit THEN Len(rest) ELSE PageLimit)
  IN [keys |-> names,
      cursor |-> IF Len(rest) > PageLimit THEN Text(names[Len(names)]) ELSE Undef]

\* a loop that stops after its first page
LoopOnce(cursor) == FALSE

\* line 62: while (cursor)
LoopAgain(cursor) == Truthy(cursor)

\* a request that has not begun
NewClear(kv, store, prefix) ==
  [pc |-> "start",        \* "start", "list", "delete", "done"
   KV_CACHE |-> kv,
   store |-> store,
   before |-> store,      \* the store when the request began
   prefix |-> prefix,     \* params.prefix
   pref |-> <<>>,         \* the prefix handed to cacheDeletePrefix
   cursor |-> Undef,
   list |-> [keys |-> <<>>, cursor |-> Undef],
   count |-> 0,
   failed |-> FALSE,      \* a call of the store rejected
   returned |-> Undef,    \* what cacheDeletePrefix returned
   resp |-> Undef]

\* cache.js:63 and index.js:90: { deleted: count } and the response
Return(c) ==
  [c EXCEPT !.pc = "done",
            !.returned = ObjOf([deleted |-> Num(c.count)]),
            !.resp = json(ObjOf([ok |-> Bool(TRUE), deleted |-> Num(c.count)]), 200)]

\* index.js:94-96: a rejection of the store reaches the catch of fetch
Reject(c) ==
  [c EXCEPT !.pc = "done", !.failed = TRUE,
            !.resp = json(ObjOf([error |-> Str("KV failed")]), 500)]

\* index.js:86-89, cache.js:52-56: without a store { deleted: 0 } at once,
\* else the first list is called
ClearStart ==
  /\ clear.pc = "start"
  /\ clear' = IF ~clear.KV_CACHE THEN Return(clear)
              ELSE [clear EXCEPT !.pc = "list", !.pref = Trim(clear.prefix)]
  /\ UNCHANGED exceptClear

\* cache.js:56-62: list resolved; its first key is deleted, or, the page
\* being empty, the loop ends
ListReturns ==
  /\ clear.pc = "list"
  /\ LET l == ListKeys(clear.store, clear.pref, clear.cursor) IN
     clear' = IF l.keys # <<>> THEN [clear EXCEPT !.pc = "delete", !.list = l]
              ELSE IF LoopAgain(l.cursor) THEN [clear EXCEPT !.list = l, !.cursor = l.cursor]
              ELSE Return([clear EXCEPT !.list = l, !.cursor = l.cursor])
  /\ UNCHANGED exceptClear

\* cache.js:57-62: a delete resolved; the next key of the page is deleted,
\* or the page is done and the cursor decides
DeleteReturns ==
  /\ clear.pc = "delete"
  /\ LET k == Head(clear.list.keys)
         c == [clear EXCEPT !.store = @ \ {k}, !.count = @ + 1, !.list.keys = Tail(@)]
     IN clear' = IF c.list.keys # <<>> THEN c
                 ELSE IF LoopAgain(c.list.cursor)
                 THEN [c EXCEPT !.pc = "list", !.cursor = c.list.cursor]
                 ELSE Return([c EXCEPT !.cursor = c.list.cursor])
  /\ UNCHANGED exceptClear

\* cache.js:56, 58: list or delete rejected; nothing catches it before fetch
StoreRejects ==
  /\ clear.pc \in {"list", "delete"}
  /\ clear' = Reject(clear)
  /\ UNCHANGED exceptClear

ClearInit ==
  /\ clear \in {NewClear(kv, IF kv THEN s ELSE {}, p) :
                   kv \in BOOLEAN, s \in Stores, p \in Prefixes}
  /\ IdleExceptClear

ClearNext == ClearStart \/ ListReturns \/ DeleteReturns \/ StoreRejects

SpecClear == ClearInit /\ [][ClearNext]_vars

\* every call of the store settles, and the continuation then runs
SpecClearLive == SpecClear /\ WF_vars(ClearNext)

\* ------------------------------------------------------- prompt templates

\* most units of a prompt the request supplies
MaxPrompt == 3
\* most units of the text the page holds
MaxValue == 2

\* the placeholder tokens, each one unit of a prompt
ModeToken == "{{MODE}}"
DomToken == "{{DOM_STRUCTURE_JSON}}"
VisionToken == "{{VISION_STRUCTURE_JSON}}"

\* schema.js:135-156 by its units: the text around the two placeholders it
\* holds (it holds no {{MODE}})
MERGE_PROMPT ==
  <<"You will receive:", "DOM_STRUCTURE_JSON:", DomToken,
    "VISION_STRUCTURE_JSON:", VisionToken, "=== Strict JSON Schema to follow ===">>

RECURSIVE GetSubstitution(_, _, _, _, _)
\* What String.prototype.replace inserts for a pattern that is a string (no
\* captures), from unit j of the replacement on: a dollar followed by a
\* dollar is one dollar, by an ampersand the matched text, by a backtick
\* the text before the match, by an apostrophe the text after it.
GetSubstitution(matched, str, position, replacement, j) ==
  IF j > Len(replacement) THEN <<>>
  ELSE IF replacement[j] = "$" /\ j < Len(replacement)
          /\ replacement[j + 1] \in {"$", "&", Backtick, "'"}
  THEN (CASE replacement[j + 1] = "$" -> <<"$">>
          [] replacement[j + 1] = "&" -> <<matched>>
          [] replacement[j + 1] = Backtick -> SubSeq(str, 1, position - 1)
          [] OTHER -> SubSeq(str, position + 1, Len(str)))
       \o GetSubstitution(matched, str, position, replacement, j + 2)
  ELSE <<replacement[j]>> \o GetSubstitution(matched, str, position, replacement, j + 1)

\* str.replace(pattern, replacement) with a string pattern: the first
\* occurrence only
replace(str, pattern, replacement) ==
  LET i == indexOf(str, pattern) IN
  IF i = -1 THEN str
  ELSE slice(str, 0, i) \o GetSubstitution(pattern, str, i + 1, replacement, 1)
       \o SubSeq(str, i + 2, Len(str))

\* JSON.stringify(domStructure): the texts of the page pass into it as they
\* are (the units hold no quote and no backslash)
StringifyDom(text) == <<"{PAGE:">> \o text \o <<"}">>

\* JSON.stringify(visionStructure), the sanitized reply of the vision call
StringifyVision(text) == <<"{page_intent:">> \o text \o <<"}">>

\* client.js:5-8, for a prompt that is a string
buildPromptWithSource(p, url) ==
  Trim(p)
  \o (IF url # <<>> THEN <<"[Source URL: ">> \o url \o <<"]">> ELSE <<>>)

\* merge.js:62: a prompt of the request that is not blank, else MERGE_PROMPT
visionPrompt(p) == IF Truthy(p) /\ Len(Trim(p.x)) > 0 THEN p.x ELSE MERGE_PROMPT

\* merge.js:65-70
finalVisionPrompt(p, domStructure, target) ==
  buildPromptWithSource(
    replace(replace(visionPrompt(p), ModeToken, <<"vision-only">>),
            DomToken, StringifyDom(domStructure)),
    target)

\* merge.js:91-94
mergePrompt(domStructure, visionStructure) ==
  replace(replace(replace(MERGE_PROMPT, ModeToken, <<"merge">>),
                  DomToken, StringifyDom(domStructure)),
          VisionToken, StringifyVision(visionStructure))

\* the units of a prompt a request supplies
PromptUnits == {"x", " ", ModeToken, DomToken}
Prompts == {Undef} \cup {Text(x) : x \in SeqsUpTo(PromptUnits, MaxPrompt)}

\* the units of a text of the page (a heading, a link), which cleanText
\* leaves as they are
ValueUnits == {"a", "$", "&", VisionToken}
PageTexts == SeqsUpTo(ValueUnits, MaxValue)

\* the texts of the sanitized reply of the vision call
VisionTexts == {<<"v">>, <<"$", "&">>}

PromptTarget == <<"https://a">>

PromptInit ==
  /\ prompt \in {[pc |-> "start", prompt |-> p, domStructure |-> d,
                  finalVisionPrompt |-> <<>>, visionStructure |-> <<>>,
                  mergePrompt |-> <<>>, finalMergePrompt |-> <<>>] :
                 p \in Prompts, d \in PageTexts}
  /\ IdleExceptPrompt

\* merge.js:62-70
BuildVisionPrompt ==
  /\ prompt.pc = "start"
  /\ prompt' = [prompt EXCEPT
       !.pc = "vision",
       !.finalVisionPrompt = finalVisionPrompt(prompt.prompt, prompt.domStructure, PromptTarget)]
  /\ UNCHANGED exceptPrompt

\* merge.js:87-100, with the reply of the vision call
BuildMergePrompt ==
  /\ prompt.pc = "vision"
  /\ \E v \in VisionTexts :
       prompt' = [prompt EXCEPT
         !.pc = "merge",
         !.visionStructure = v,
         !.mergePrompt = mergePrompt(prompt.domStructure, v),
         !.finalMergePrompt = buildPromptWithSource(mergePrompt(prompt.domStructure, v), PromptTarget)]
  /\ UNCHANGED exceptPrompt

PromptNext == BuildVisionPrompt \/ BuildMergePrompt

SpecPrompt == PromptInit /\ [][PromptNext]_vars

\* ------------------------------------------------- fullPage of a request

\* the operations that call renderAndScreenshot ("ai" is the other name of
\* screenshotandai-describe)
ShotOutputs == {"screenshot", "screenshotandai-describe", "ai", "merged-structure"}

Methods == {"GET", "POST"}

\* what a request can give for fullPage: nothing, or a string; a JSON body
\* can give a boolean too
GivenFullPage(method) ==
  {Undef, Str("true"), Str("false"), Str(""), Str("1")}
  \cup (IF method = "POST" THEN {Bool(TRUE), Bool(FALSE)} ELSE {})

\* u.searchParams.get(name): null when the query has no such parameter
searchParamsGet(given) == IF given = Undef THEN Null ELSE given

\* a ?? b
Coalesce(a, b) == IF IsNullish(a) THEN b ELSE a

\* a || b
OrElse(a, b) == IF Truthy(a) THEN a ELSE b

\* index.js:103-128, the fullPage of the parameters read: the query's or
\* "true" for a GET, the body's own for a POST
readParams(method, given) ==
  IF method = "GET" THEN Coalesce(searchParamsGet(given), Str("true")) ELSE given

\* screenshot.js:34, aiCombined.js:21, merge.js:44
fullPage(params_fullPage) == OrElse(params_fullPage, Str("false")) = Str("true")

\* browser.js:110: options.fullPage of page.screenshot
optionsFullPage(b) == b

ShotInit ==
  /\ capture \in {[pc |-> "start", method |-> m, output |-> o, given |-> g,
                params |-> Undef, fullPage |-> FALSE, options |-> FALSE] :
               m \in Methods, o \in ShotOutputs, g \in GivenFullPage("POST")}
  /\ capture.given \in GivenFullPage(capture.method)
  /\ IdleExceptCapture

\* index.js:32: const params = await readParams(request)
ReadParams ==
  /\ capture.pc = "start"
  /\ capture' = [capture EXCEPT !.pc = "params", !.params = readParams(capture.method, capture.given)]
  /\ UNCHANGED exceptCapture

\* the handler's lines before renderAndScreenshot
HandlerReadsFullPage ==
  /\ capture.pc = "params"
  /\ capture' = [capture EXCEPT !.pc = "handler", !.fullPage = fullPage(capture.params)]
  /\ UNCHANGED exceptCapture

\* browser.js:109-115: page.screenshot(options)
TakeScreenshot ==
  /\ capture.pc = "handler"
  /\ capture' = [capture EXCEPT !.pc = "shot", !.options = optionsFullPage(capture.fullPage)]
  /\ UNCHANGED exceptCapture

ShotNext == ReadParams \/ HandlerReadsFullPage \/ TakeScreenshot

SpecShot == ShotInit /\ [][ShotNext]_vars

\* ------------------------------------------------------ browser sessions

RenderFunctions == {"renderPageGetHtml", "renderAndScreenshot"}

\* the calls each function awaits once the browser is launched, in order
Awaited ==
  [f \in RenderFunctions |->
     IF f = "renderPageGetHtml"
     THEN <<"newPage", "setViewport", "goto", "autoScroll", "evaluate", "sleep",
            "content", "page.close">>
     ELSE <<"newPage", "setViewport", "goto", "waitForSelector", "evaluate",
            "autoScroll", "scrollTo", "wait", "screenshot">>]

\* the first awaited call inside the try block: browser.js:15 for
\* renderPageGetHtml (newPage), browser.js:64 for renderAndScreenshot
\* (setViewport; newPage is at line 59, before the try at line 60)
FirstInTry == [f \in RenderFunctions |-> IF f = "renderPageGetHtml" THEN 1 ELSE 2]

\* a call that has not launched its browser yet
NewLaunch(f, valid, selector) ==
  [pc |-> "start",         \* "start", "running", "finally", "done"
   fn |-> f,
   validUrl |-> valid,     \* new URL(targetUrl) accepts the target
   selectorToWaitFor |-> selector,
   step |-> 0,             \* the place in Awaited[fn] of the call awaited
   retried |-> FALSE,      \* the first goto failed and the second was begun
   launched |-> FALSE,     \* puppeteer.launch resolved
   pageOpened |-> FALSE,   \* browser.newPage resolved
   closeCalled |-> FALSE,  \* browser.close() was called
   pending |-> "none",     \* how the try block was left: "return", "throw"
   outcome |-> "none"]     \* "returned", "thrown"

\* the place of the call awaited after place n, the selector wait being
\* skipped when no selector is given (browser.js:74)
NextStep(l, n) ==
  IF n + 1 <= Len(Awaited[l.fn]) /\ Awaited[l.fn][n + 1] = "waitForSelector"
     /\ ~l.selectorToWaitFor
  THEN n + 2 ELSE n + 1

\* the call after the awaited one resolved or was given up: the next call,
\* or the end of the try block
Continue(l) ==
  IF NextStep(l, l.step) > Len(Awaited[l.fn])
  THEN [l EXCEPT !.pc = "finally", !.pending = "return"]
  ELSE [l EXCEPT !.step = NextStep(l, l.step), !.retried = FALSE]

\* browser.js:11-12, 58: the target is validated by renderPageGetHtml, and
\* the browser launched
Launch ==
  /\ launch.pc = "start"
  /\ \/ /\ launch.fn = "renderPageGetHtml" /\ ~launch.validUrl
        /\ launch' = [launch EXCEPT !.pc = "done", !.outcome = "thrown"]
     \/ /\ launch.fn = "renderPageGetHtml" => launch.validUrl
        /\ \E ok \in BOOLEAN :
             launch' = IF ok THEN [launch EXCEPT !.pc = "running", !.launched = TRUE, !.step = 1]
                       ELSE [launch EXCEPT !.pc = "done", !.outcome = "thrown"]
  /\ UNCHANGED exceptLaunch

\* the awaited call resolved
StepResolves ==
  /\ launch.pc = "running"
  /\ launch' = [Continue(launch) EXCEPT
       !.pageOpened = @ \/ Awaited[launch.fn][launch.step] = "newPage"]
  /\ UNCHANGED exceptLaunch

\* the awaited call rejected: a first goto is retried (browser.js:21-24,
\* 68-71), a selector wait is given up (browser.js:77-81), a call inside the
\* try block goes to its finally, a call before it leaves the function
StepRejects ==
  /\ launch.pc = "running"
  /\ LET call == Awaited[launch.fn][launch.step] IN
     launch' =
       IF call = "goto" /\ ~launch.retried THEN [launch EXCEPT !.retried = TRUE]
       ELSE IF call = "waitForSelector" THEN Continue(launch)
       ELSE IF launch.step >= FirstInTry[launch.fn]
       THEN [launch EXCEPT !.pc = "finally", !.pending = "throw"]
       ELSE [launch EXCEPT !.pc = "done", !.outcome = "thrown"]
  /\ UNCHANGED exceptLaunch

\* browser.js:38-40, 121-124: the finally block calls browser.close(),
\* whose failure is swallowed; then the function returns or rethrows
Finally ==
  /\ launch.pc = "finally"
  /\ launch' = [launch EXCEPT
       !.pc = "done", !.closeCalled = TRUE,
       !.outcome = IF launch.pending = "return" THEN "returned" ELSE "thrown"]
  /\ UNCHANGED exceptLaunch

LaunchInit ==
  /\ launch \in {NewLaunch(f, valid, selector) :
                 f \in RenderFunctions, valid \in BOOLEAN, selector \in BOOLEAN}
  /\ IdleExceptLaunch

LaunchNext == Launch \/ StepResolves \/ StepRejects \/ Finally

SpecLaunch == LaunchInit /\ [][LaunchNext]_vars

\* ------------------------------------------------------------ HTML parser

\* most anchors of a page of the links family
MaxAnchors == 2

\* A page is the sequence of its tokens: an opening tag with its attributes
\* in order, a closing tag, or one character of text (an entity such as
\* &copy; counts as one). The regular expressions of the parsers are read
\* over these tokens; no attribute value holds a quote or an angle bracket.
Attr(name, value) == [name |-> name, value |-> value]
OpenTag(tag, attrs) == [k |-> "open", tag |-> tag, attrs |-> attrs, c |-> ""]
CloseTag(tag) == [k |-> "close", tag |-> tag, attrs |-> <<>>, c |-> ""]
Ch(c) == [k |-> "char", tag |-> "", attrs |-> <<>>, c |-> c]
\* the text made of the characters of s
Chs(s) == [i \in 1..Len(s) |-> Ch(s[i])]

\* the tag names an expression beginning <prefix accepts: <a accepts
\* <article too
TagsWithPrefix(prefix) == IF prefix = "a" THEN {"a", "article"} ELSE {prefix}

\* the words the expressions look for inside an attribute value, for the
\* values the pages hold
Needles(value) ==
  CASE value \in {"hero", "hero dark"} -> {"hero"}
    [] value = "banner" -> {"banner"}
    [] value \in {"nav", "navbar"} -> {"nav"}
    [] value \in {"logo", "/logo.png"} -> {"logo"}
    [] value = "btn" -> {"btn"}
    [] value = "section" -> {"section"}
    [] OTHER -> {}

\* the tag has an attribute of this name whose value holds one of the words:
\* name="[^"]*(?:w1|w2)[^"]*"
HasAttr(tok, name, words) ==
  \E i \in 1..Len(tok.attrs) :
    tok.attrs[i].name = name /\ Needles(tok.attrs[i].value) \cap words # {}

\* tag.match(/name="([^"]*)"/): the value of the first such attribute, or ""
AttrValue(attrs, name) ==
  IF \E i \in 1..Len(attrs) : attrs[i].name = name
  THEN attrs[CHOOSE i \in 1..Len(attrs) :
               attrs[i].name = name /\ \A j \in 1..(i - 1) : attrs[j].name # name].value
  ELSE ""

\* [^>]* before an optional group: the star is greedy, so the attempt tried
\* first is the one in which it takes every attribute of the tag
GreedyTake(attrs) == Len(attrs)

\* [^>]*(?:name="([^"]*)")?[^>]*> : what the optional group captures, <<>>
\* when it takes no part in the match. The attempt in which the star before
\* it takes the whole tag is tried first and succeeds whenever any attempt
\* does, so the group is left with nothing to match.
OptionalGroup(attrs, name) ==
  LET n == GreedyTake(attrs) IN
  IF n < Len(attrs) /\ attrs[n + 1].name = name THEN <<attrs[n + 1].value>> ELSE <<>>

\* the places of the opening tags an expression beginning <prefix accepts
Opening(s, prefix) ==
  {i \in 1..Len(s) : s[i].k = "open" /\ s[i].tag \in TagsWithPrefix(prefix)}

RECURSIVE FirstClose(_, _, _)
\* the place of the first </tag> at or after place i, or 0
FirstClose(s, tag, i) ==
  IF i > Len(s) THEN 0
  ELSE IF s[i] = CloseTag(tag) THEN i ELSE FirstClose(s, tag, i + 1)

NoMatch == [open |-> 0, close |-> 0]

RECURSIVE Match(_, _, _, _)
\* the leftmost match of <open ...>([\s\S]*?)</tag> at or after place from,
\* the opening tags the expression accepts being at the places starts: the
\* places of its opening tag and of the first closing tag after it
Match(s, starts, tag, from) ==
  IF from > Len(s) THEN NoMatch
  ELSE IF from \in starts /\ FirstClose(s, tag, from + 1) # 0
  THEN [open |-> from, close |-> FirstClose(s, tag, from + 1)]
  ELSE Match(s, starts, tag, from + 1)

RECURSIVE MatchAll(_, _, _, _)
\* s.matchAll of the same expression: the matches one after the other
MatchAll(s, starts, tag, from) ==
  LET m == Match(s, starts, tag, from) IN
  IF m = NoMatch THEN <<>> ELSE <<m>> \o MatchAll(s, starts, tag, m.close + 1)

\* the group ([\s\S]*?) of a match, and the whole match
Inner(s, m) == SubSeq(s, m.open + 1, m.close - 1)
Whole(s, m) == SubSeq(s, m.open, m.close)

RECURSIVE Characters(_)
\* text.replace(/<[^>]*>/g, ""): the characters left when the tags are gone
Characters(s) ==
  IF s = <<>> THEN <<>>
  ELSE (IF Head(s).k = "char" THEN <<Head(s).c>> ELSE <<>>) \o Characters(Tail(s))

\* structure.js:282-292: the entities cleanText decodes
Decoded(c) ==
  CASE c = "&amp;" -> "&"
    [] c = "&nbsp;" -> " "
    [] c \in {"&mdash;", "&ndash;"} -> "-"
    [] c = "&copy;" -> "©"
    [] OTHER -> c

RECURSIVE Collapse(_)
\* str.replace(/\s+/g, " ")
Collapse(str) ==
  IF Len(str) < 2 THEN str
  ELSE IF str[1] = " " /\ str[2] = " " THEN Collapse(Tail(str))
  ELSE <<str[1]>> \o Collapse(Tail(str))

\* structure.js:278-294
cleanText(s) ==
  LET text == Characters(s) IN
  Trim(Collapse([i \in 1..Len(text) |-> Decoded(text[i])]))

\* htmlParser.js:86-88: no entity is decoded
cleanTextParser(s) == Trim(Collapse(Characters(s)))

\* href.startsWith("#"), for the hrefs the pages hold
StartsWithHash(href) == href \in {"#", "#top"}

RECURSIVE Unique(_, _)
\* structure.js:266-275: the links whose key text|href was not seen before
Unique(links, seen) ==
  IF links = <<>> THEN <<>>
  ELSE LET linkKey == Head(links).text \o <<"|", Head(links).href>> IN
       IF linkKey \in seen THEN Unique(Tail(links), seen)
       ELSE <<Head(links)>> \o Unique(Tail(links), seen \cup {linkKey})

\* structure.js:248-276: every group of the expression but the text is
\* optional and follows a greedy [^>]*
extractLinks(content) ==
  LET ms == MatchAll(content, Opening(content, "a"), "a", 1)
      href(m) == LET g == OptionalGroup(content[m.open].attrs, "href")
                 IN IF g = <<>> THEN "" ELSE g[1]
      link(m) == [text |-> cleanText(Inner(content, m)), href |-> href(m)]
      all == [i \in 1..Len(ms) |-> link(ms[i])]
      kept(l) == l.text # <<>> /\ l.href # "" /\ ~StartsWithHash(l.href)
  IN Unique(SelectSeq(all, kept), {})

\* htmlParser.js:77-84: the href is part of the expression, the links are
\* pushed as they come
extractLinksParser(content) ==
  LET starts == {i \in Opening(content, "a") :
                   \E j \in 1..Len(content[i].attrs) : content[i].attrs[j].name = "href"}
      ms == MatchAll(content, starts, "a", 1)
  IN [i \in 1..Len(ms) |->
        [href |-> AttrValue(content[ms[i].open].attrs, "href"),
         text |-> cleanTextParser(Inner(content, ms[i]))]]

\* structure.js:214-227, htmlParser.js:71-75: the src and alt of an image tag
extractImageData(imgTag) ==
  [src |-> AttrValue(imgTag.attrs, "src"), alt |-> AttrValue(imgTag.attrs, "alt")]

RECURSIVE LeadingText(_)
\* />([^<]*)</ on a match that begins with a tag: the characters between
\* that tag and the next one
LeadingText(s) ==
  IF s = <<>> \/ Head(s).k # "char" THEN <<>> ELSE <<Head(s)>> \o LeadingText(Tail(s))

\* the value of the first attribute of this name in the tags of s, or ""
FirstAttrValue(s, name) ==
  LET has(i) == s[i].k = "open" /\ \E j \in 1..Len(s[i].attrs) : s[i].attrs[j].name = name IN
  IF \E i \in 1..Len(s) : has(i)
  THEN AttrValue(s[CHOOSE i \in 1..Len(s) : has(i) /\ \A j \in 1..(i - 1) : ~has(j)].attrs, name)
  ELSE ""

\* structure.js:229-246: the text after the first tag, the first href, and
\* whether the match begins with <a
extractButtonData(buttonTag) ==
  [text |-> cleanText(LeadingText(Tail(buttonTag))),
   href |-> FirstAttrValue(buttonTag, "href"),
   type |-> IF Head(buttonTag).tag \in TagsWithPrefix("a") THEN "link" ELSE "button"]

\* structure.js:70-79: the eight container expressions, in order
heroPatterns ==
  <<[tag |-> "section", attr |-> "class", word |-> "hero"],
    [tag |-> "div", attr |-> "class", word |-> "hero"],
    [tag |-> "section", attr |-> "class", word |-> "jumbotron"],
    [tag |-> "div", attr |-> "class", word |-> "jumbotron"],
    [tag |-> "section", attr |-> "class", word |-> "banner"],
    [tag |-> "div", attr |-> "class", word |-> "banner"],
    [tag |-> "section", attr |-> "id", word |-> "hero"],
    [tag |-> "main", attr |-> "", word |-> ""]>>

\* html.match(pattern)[1] for the n-th container expression: <<>> when it
\* does not match, else the content it captures in a one-element sequence.
\* The class expressions look for the word inside the value, the id one for
\* the value itself; <main ...> captures what follows it (up to 3000
\* characters, more than a page here holds) and needs no closing tag.
heroContent(html, n) ==
  LET p == heroPatterns[n]
      starts ==
        {i \in Opening(html, p.tag) :
           CASE p.attr = "class" -> HasAttr(html[i], "class", {p.word})
             [] p.attr = "id" ->
                  \E j \in 1..Len(html[i].attrs) :
                    html[i].attrs[j].name = "id" /\ html[i].attrs[j].value = p.word
             [] OTHER -> TRUE}
      m == IF p.tag = "main"
           THEN (IF starts = {} THEN NoMatch
                 ELSE [open |-> CHOOSE i \in starts : \A j \in starts : i <= j,
                       close |-> Len(html) + 1])
           ELSE Match(html, starts, p.tag, 1)
  IN IF m = NoMatch THEN <<>> ELSE <<Inner(html, m)>>

\* structure.js:85-95: the first h1 of the content, else the first h2
heroHeading(content) ==
  LET h1 == Match(content, Opening(content, "h1"), "h1", 1)
      h2 == Match(content, Opening(content, "h2"), "h2", 1)
  IN IF h1 # NoMatch THEN [text |-> cleanText(Inner(content, h1)), htmlTag |-> "h1"]
     ELSE IF h2 # NoMatch THEN [text |-> cleanText(Inner(content, h2)), htmlTag |-> "h2"]
     ELSE Null

\* structure.js:97-104: the first image whose src holds none of icon, logo,
\* avatar
heroImage(content) ==
  LET ok(i) == /\ i \in Opening(content, "img")
               /\ Needles(extractImageData(content[i]).src) \cap {"icon", "logo", "avatar"} = {}
  IN IF \E i \in 1..Len(content) : ok(i)
     THEN extractImageData(content[CHOOSE i \in 1..Len(content) :
                                     ok(i) /\ \A j \in 1..(i - 1) : ~ok(j)])
     ELSE Null

\* structure.js:106-117: the first of the three button expressions to match
heroButton(content) ==
  LET classed(prefix, words) ==
        Match(content, {i \in Opening(content, prefix) : HasAttr(content[i], "class", words)},
              prefix, 1)
      b1 == classed("a", {"btn", "button", "cta"})
      b2 == classed("button", {"btn", "button", "cta"})
      b3 == classed("a", {"primary"})
  IN IF b1 # NoMatch THEN extractButtonData(Whole(content, b1))
     ELSE IF b2 # NoMatch THEN extractButtonData(Whole(content, b2))
     ELSE IF b3 # NoMatch THEN extractButtonData(Whole(content, b3))
     ELSE Null

\* what one container gives: each field, or null
FromContainer(content) ==
  [HEADING |-> heroHeading(content), IMAGE |-> heroImage(content),
   BUTTON |-> heroButton(content)]

RECURSIVE HeroFrom(_, _, _)
\* structure.js:80-120, from the n-th expression on: a container that
\* matches assigns the fields it has a match for and leaves the others as
\* they are; the loop ends once a heading or an image is set
HeroFrom(html, n, hero) ==
  IF n > Len(heroPatterns) THEN hero
  ELSE IF heroContent(html, n) = <<>> THEN HeroFrom(html, n + 1, hero)
  ELSE LET found == FromContainer(heroContent(html, n)[1])
           next == [f \in {"HEADING", "IMAGE", "BUTTON"} |->
                      IF found[f] # Null THEN found[f] ELSE hero[f]]
       IN IF next.HEADING # Null \/ next.IMAGE # Null THEN next
          ELSE HeroFrom(html, n + 1, next)

\* structure.js:68-122
extractHero(html) == HeroFrom(html, 1, [HEADING |-> Null, IMAGE |-> Null, BUTTON |-> Null])

RECURSIVE Without(_, _, _)
\* s.replace(/<tag[^>]*>[\s\S]*?<\/tag>/g, ""), from place i on: the
\* tokens outside every match
Without(s, tag, i) ==
  LET m == Match(s, Opening(s, tag), tag, i) IN
  IF m = NoMatch THEN SubSeq(s, i, Len(s))
  ELSE SubSeq(s, i, m.open - 1) \o Without(s, tag, m.close + 1)

\* structure.js:126-127
cleanHtml(html) == Without(Without(html, "header", 1), "footer", 1)

\* structure.js:128-132: the three candidate expressions; the third asks
\* for a class holding one of three words
sectionPatterns ==
  <<[tag |-> "section", words |-> {}],
    [tag |-> "article", words |-> {}],
    [tag |-> "div", words |-> {"section", "content-block", "container"}]>>

\* [...cleanHtml.matchAll(pattern)] for the n-th expression
sectionMatches(s, n) ==
  LET p == sectionPatterns[n] IN
  MatchAll(s, {i \in Opening(s, p.tag) : p.words = {} \/ HasAttr(s[i], "class", p.words)},
           p.tag, 1)

\* structure.js:138: the test that skips a candidate, made on the content
\* the expression captured, that is on what lies between the block's
\* opening and closing tags
Skipped(sectionContent) ==
  \E i \in 1..Len(sectionContent) :
    /\ sectionContent[i].k = "open"
    /\ HasAttr(sectionContent[i], "class", {"hero", "header", "footer", "nav"})

HeadingTags == {"h1", "h2", "h3", "h4", "h5", "h6"}

\* structure.js:142-152: the first <hN ...> that has its own closing tag
\* after it
sectionHeading(content) ==
  LET ok(i) == /\ content[i].k = "open" /\ content[i].tag \in HeadingTags
               /\ FirstClose(content, content[i].tag, i + 1) # 0 IN
  IF \E i \in 1..Len(content) : ok(i)
  THEN LET i == CHOOSE n \in 1..Len(content) : ok(n) /\ \A j \in 1..(n - 1) : ~ok(j) IN
       [text |-> cleanText(SubSeq(content, i + 1, FirstClose(content, content[i].tag, i + 1) - 1)),
        htmlTag |-> content[i].tag]
  ELSE Null

\* structure.js:154-160: the paragraphs of more than 10 cleaned characters
sectionTexts(content) ==
  LET ms == MatchAll(content, Opening(content, "p"), "p", 1)
      texts == [i \in 1..Len(ms) |-> cleanText(Inner(content, ms[i]))]
      long(t) == Len(t) > 10
  IN SelectSeq(texts, long)

\* structure.js:162-171: the items of the first list that have a text
sectionList(content) ==
  LET ul == Match(content, Opening(content, "ul"), "ul", 1)
      ol == Match(content, Opening(content, "ol"), "ol", 1)
      m == IF ul = NoMatch THEN ol
           ELSE IF ol = NoMatch \/ ul.open < ol.open THEN ul ELSE ol
      inner == Inner(content, m)
      ms == MatchAll(inner, Opening(inner, "li"), "li", 1)
      items == [i \in 1..Len(ms) |-> cleanText(Inner(inner, ms[i]))]
      some(t) == t # <<>>
  IN IF m = NoMatch \/ SelectSeq(items, some) = <<>> THEN Null
     ELSE [LIST_ITEMS |-> SelectSeq(items, some)]

\* the section a candidate's content gives; at is the place of the
\* candidate's opening tag in cleanHtml, kept to tell the sections apart
sectionOf(content, index, at) ==
  [section_index |-> index, HEADING |-> sectionHeading(content),
   TEXTS |-> sectionTexts(content), LIST |-> sectionList(content), at |-> at]

\* structure.js:173: a section with a heading, a text or a list
NotEmpty(section) == section.HEADING # Null \/ section.TEXTS # <<>> \/ section.LIST # Null

RECURSIVE SectionsFrom(_, _, _, _)
\* structure.js:134-178, from the j-th match of the n-th expression on
SectionsFrom(s, n, j, sections) ==
  IF n > Len(sectionPatterns) THEN sections
  ELSE IF j > Len(sectionMatches(s, n)) THEN SectionsFrom(s, n + 1, 1, sections)
  ELSE LET m == sectionMatches(s, n)[j]
           section == sectionOf(Inner(s, m), Len(sections), m.open)
       IN IF Skipped(Inner(s, m)) \/ ~NotEmpty(section)
          THEN SectionsFrom(s, n, j + 1, sections)
          ELSE SectionsFrom(s, n, j + 1, Append(sections, section))

\* structure.js:124-180
extractSections(html) == SectionsFrom(cleanHtml(html), 1, 1, <<>>)

\* htmlParser.js:23-38: the first image tag of the header that holds the
\* word logo anywhere, and the links of its nav
extractHeaderParser(html) ==
  LET m == Match(html, Opening(html, "header"), "header", 1)
      headerContent == Inner(html, m)
      logo(i) == /\ i \in Opening(headerContent, "img")
                 /\ \E j \in 1..Len(headerContent[i].attrs) :
                      "logo" \in Needles(headerContent[i].attrs[j].value)
      nav == Match(headerContent, Opening(headerContent, "nav"), "nav", 1)
  IN [LOGO |-> IF m # NoMatch /\ \E i \in 1..Len(headerContent) : logo(i)
               THEN extractImageData(headerContent[CHOOSE i \in 1..Len(headerContent) :
                                                     logo(i) /\ \A j \in 1..(i - 1) : ~logo(j)])
               ELSE Null,
      NAVIGATION |-> [LINKS |-> IF m # NoMatch /\ nav # NoMatch
                                THEN extractLinksParser(Inner(headerContent, nav))
                                ELSE <<>>]]

\* htmlParser.js:40-45: the first h1 of the page
extractHeroParser(html) ==
  LET m == Match(html, Opening(html, "h1"), "h1", 1) IN
  [HEADING |-> IF m # NoMatch
               THEN [text |-> cleanTextParser(Inner(html, m)), htmlTag |-> "h1"] ELSE Null,
   IMAGE |-> Null, BUTTON |-> Null]

RECURSIVE SectionsParserFrom(_, _, _, _)
\* htmlParser.js:51-58, from the j-th section on: a section is pushed when
\* it has an h2, with its index and that heading
SectionsParserFrom(html, ms, j, sections) ==
  IF j > Len(ms) THEN sections
  ELSE LET sectionContent == Inner(html, ms[j])
           heading == Match(sectionContent, Opening(sectionContent, "h2"), "h2", 1)
       IN SectionsParserFrom(html, ms, j + 1,
            IF heading = NoMatch THEN sections
            ELSE Append(sections,
                   [section_index |-> Len(sections),
                    HEADING |-> [text |-> cleanTextParser(Inner(sectionContent, heading)),
                                 htmlTag |-> "h2"]]))

\* htmlParser.js:47-60
extractSectionsParser(html) ==
  SectionsParserFrom(html, MatchAll(html, Opening(html, "section"), "section", 1), 1, <<>>)

\* htmlParser.js:62-69: the cleaned text of the whole footer
extractFooterParser(html) ==
  LET m == Match(html, Opening(html, "footer"), "footer", 1) IN
  [TEXT |-> IF m # NoMatch THEN [text |-> cleanTextParser(Inner(html, m))] ELSE Null,
   LINKS |-> <<>>]

\* htmlParser.js:4-20, the parser handleStructure (handlers/structure.js:5,
\* 19) and handleMergedStructure (merge.js:5, 33) import
parseHTML(html, originalUrl) ==
  [PAGE |-> [HEADER |-> extractHeaderParser(html),
             HERO |-> extractHeroParser(html),
             SECTION |-> extractSectionsParser(html),
             FOOTER |-> extractFooterParser(html),
             PAGE_INTENT |-> [description |-> Null]],
   url |-> originalUrl]

\* a block: an opening tag, a content, the closing tag
Block(tag, attrs, content) == <<OpenTag(tag, attrs)>> \o content \o <<CloseTag(tag)>>

\* what the containers of the hero family hold: nothing, a button, a
\* heading, a heading and a button, an image, a logo image
HeroContents ==
  {<<>>,
   Block("a", <<Attr("class", "btn"), Attr("href", "/go")>>, Chs(<<"G", "o">>)),
   Block("h1", <<>>, Chs(<<"T">>)),
   Block("h2", <<>>, Chs(<<"U">>))
     \o Block("button", <<Attr("class", "btn")>>, Chs(<<"O", "k">>)),
   <<OpenTag("img", <<Attr("src", "/a.png")>>)>>,
   <<OpenTag("img", <<Attr("src", "/logo.png")>>)>>}

\* a hero section, then a banner div, then perhaps a main
HeroPages ==
  {Block("section", <<Attr("class", "hero dark")>>, c1)
   \o Block("div", <<Attr("class", "banner")>>, c2) \o c3 :
     c1 \in HeroContents, c2 \in HeroContents,
     c3 \in {<<>>, <<OpenTag("main", <<>>)>> \o Block("h1", <<>>, Chs(<<"M">>))}}

\* a paragraph of eleven characters
LongParagraph == Block("p", <<>>, Chs(<<"1", "2", "3", "4", "5", "6", "7", "8", "9", "0", "a">>))

\* what the blocks of the sections family hold: nothing, a heading, a
\* heading and a nested element with a nav class, a paragraph, a short
\* paragraph and a list
SectionContents ==
  {<<>>,
   Block("h2", <<>>, Chs(<<"H", "i">>)),
   Block("h3", <<>>, Chs(<<"H", "i">>)) \o Block("ul", <<Attr("class", "nav")>>,
                                                  Block("li", <<>>, Chs(<<"x">>))),
   LongParagraph,
   Block("p", <<>>, Chs(<<"n", "o">>)) \o Block("ol", <<>>, Block("li", <<>>, Chs(<<"y">>)))}

\* the blocks of the sections family: a section with no class, with a
\* hero class or with another class, an article, a div with a section class
SectionBlocks ==
  {Block(b.tag, b.attrs, c) :
     b \in {[tag |-> "section", attrs |-> <<>>],
            [tag |-> "section", attrs |-> <<Attr("class", "hero")>>],
            [tag |-> "section", attrs |-> <<Attr("class", "card")>>],
            [tag |-> "article", attrs |-> <<Attr("class", "navbar")>>],
            [tag |-> "div", attrs |-> <<Attr("class", "section")>>]},
     c \in SectionContents}

\* a page of the sections family: perhaps a header, a block, perhaps a
\* second block, perhaps a footer
SectionPages ==
  {pre \o b1 \o b2 \o post :
     pre \in {<<>>, Block("header", <<>>, Block("h1", <<>>, Chs(<<"S">>)))},
     b1 \in SectionBlocks,
     b2 \in {<<>>, Block("section", <<>>, Block("h2", <<>>, Chs(<<"Z">>)))},
     post \in {<<>>, Block("footer", <<>>, LongParagraph)}}

\* the texts of the scenario pages
HeadingText == <<"H", "i">>
ParagraphText == <<"1", "2", "3", "4", "5", "6", "7", "8", "9", "0", "a">>
CopyrightText == <<"©", " ", "2", "0", "2", "4">>

\* a header holding an image with class logo, one section holding a
\* heading and a paragraph of eleven characters, a footer holding a
\* paragraph with a copyright glyph
Scenario(src, logoFirst, pClass) ==
  Block("header", <<>>,
        <<OpenTag("img", IF logoFirst THEN <<Attr("class", "logo"), Attr("src", src)>>
                         ELSE <<Attr("src", src), Attr("class", "logo")>>)>>)
  \o Block("section", <<>>,
           Block("h2", <<>>, Chs(HeadingText)) \o Block("p", pClass, Chs(ParagraphText)))
  \o Block("footer", <<>>, Block("p", <<>>, Chs(CopyrightText)))

LogoSources == {"/l.png", "/logo.png"}
ParagraphClasses == {<<>>, <<Attr("class", "lead")>>}

ScenarioPages ==
  {Scenario(src, logoFirst, pClass) :
     src \in LogoSources, logoFirst \in BOOLEAN, pClass \in ParagraphClasses}

\* an anchor with these attributes around this text
Anchor(attrs, text) == <<OpenTag("a", attrs)>> \o Chs(text) \o <<CloseTag("a")>>

RECURSIVE Concat(_)
\* the parts of a page one after the other
Concat(parts) == IF parts = <<>> THEN <<>> ELSE Head(parts) \o Concat(Tail(parts))

\* the anchors of the links family: with and without text, with an href, a
\* fragment href, an empty href, or none
Anchors ==
  {Anchor(attrs, text) :
     attrs \in {<<>>, <<Attr("href", "/a")>>, <<Attr("href", "#top")>>, <<Attr("href", "")>>},
     text \in {<<>>, <<"x">>}}

LinkPages == {Concat(p) : p \in SeqsUpTo(Anchors, MaxAnchors)}

PageInputs == LinkPages \cup HeroPages \cup SectionPages \cup ScenarioPages

\* the functions applied to the page, each once and in any order
ParserFunctions ==
  {"extractLinks", "extractLinksParser", "extractHero", "extractSections", "parseHTML"}

ParseInit ==
  /\ parse \in {[pc |-> "on", html |-> h, ran |-> {},
                 links |-> <<>>, parserLinks |-> <<>>, hero |-> Null,
                 sections |-> <<>>, domStructure |-> Null] :
               h \in PageInputs}
  /\ IdleExceptParse

\* extractLinks(html) of structure.js
ExtractLinks ==
  /\ parse.pc = "on" /\ "extractLinks" \notin parse.ran
  /\ parse' = [parse EXCEPT !.ran = @ \cup {"extractLinks"},
                            !.links = extractLinks(parse.html)]
  /\ UNCHANGED exceptParse

\* extractLinks(html) of htmlParser.js
ExtractLinksParser ==
  /\ parse.pc = "on" /\ "extractLinksParser" \notin parse.ran
  /\ parse' = [parse EXCEPT !.ran = @ \cup {"extractLinksParser"},
                            !.parserLinks = extractLinksParser(parse.html)]
  /\ UNCHANGED exceptParse

\* extractHero(html) of structure.js
ExtractHero ==
  /\ parse.pc = "on" /\ "extractHero" \notin parse.ran
  /\ parse' = [parse EXCEPT !.ran = @ \cup {"extractHero"},
                            !.hero = extractHero(parse.html)]
  /\ UNCHANGED exceptParse

\* extractSections(html) of structure.js
ExtractSections ==
  /\ parse.pc = "on" /\ "extractSections" \notin parse.ran
  /\ parse' = [parse EXCEPT !.ran = @ \cup {"extractSections"},
                            !.sections = extractSections(parse.html)]
  /\ UNCHANGED exceptParse

\* structure.js:19, merge.js:33: const domStructure = parseHTML(html, target)
ParseHTML ==
  /\ parse.pc = "on" /\ "parseHTML" \notin parse.ran
  /\ parse' = [parse EXCEPT !.ran = @ \cup {"parseHTML"},
                            !.domStructure = parseHTML(parse.html, "https://a")]
  /\ UNCHANGED exceptParse

ParseNext ==
  ExtractLinks \/ ExtractLinksParser \/ ExtractHero \/ ExtractSections \/ ParseHTML

SpecParse == ParseInit /\ [][ParseNext]_vars

\* ------------------------------------------------------------------ claims

\* the call has returned
Sanitized == pc \in {"once", "twice"}

\* the properties of a value that may be no object: a primitive has none
Prop(v, k) == IF IsObject(v) THEN Get(v, k) ELSE Undef

\* the items of a value that may be no array
Items(v) == IF IsArray(v) THEN v.a ELSE <<>>

\* the sections and elements as they came in
InSecs == Items(Prop(x0, "sections"))
InEls(j) == Items(Prop(InSecs[j], "elements"))

\* the sections and elements of the returned object
OutSecs == Get(ret, "sections").a
OutEls(j) == Get(OutSecs[j], "elements").a

\* sections and elements are mapped one to one
SameShape ==
  /\ Len(OutSecs) = Len(InSecs)
  /\ \A j \in 1..Len(OutSecs) : Len(OutEls(j)) = Len(InEls(j))

\* C1 (as claimed): for every normalized JSON value, objects or not, the
\* sanitized value is an object whose sections is an array and whose
\* page_intent is a string.
C1_SanitizedHasShape ==
  npc = "done" =>
    /\ IsObject(page)
    /\ IsArray(Get(page, "sections"))
    /\ IsString(Get(page, "page_intent"))

\* C2 (as claimed): after sanitizeSchema every section's type is one of the
\* six schema values.
C2_TypeInEnum ==
  (Sanitized /\ IsObject(x0)) =>
    \A j \in 1..Len(OutSecs) : Get(OutSecs[j], "type") \in {Str(ty) : ty \in SectionTypes}

\* C2 (amended): after sanitizeSchema every section's type is "other" when
\* the incoming type was falsy or absent, and is the incoming type,
\* unchanged and unvalidated, when that was truthy; so it is one of the six
\* values whenever the incoming type was one of them or falsy.
C2_TypeDefaulted ==
  (Sanitized /\ IsObject(x0)) =>
    /\ SameShape
    /\ \A j \in 1..Len(OutSecs) :
         LET ty == Prop(InSecs[j], "type") IN
         /\ Get(OutSecs[j], "type") = IF Truthy(ty) THEN ty ELSE Str("other")
         /\ (~Truthy(ty) \/ ty \in {Str(t) : t \in SectionTypes})
              => Get(OutSecs[j], "type") \in {Str(t) : t \in SectionTypes}

\* a page with a section of unknown type and a section without type, sanitized
C2_Witness ==
  /\ pc = "once" /\ IsObject(x0) /\ Len(InSecs) >= 2
  /\ Prop(InSecs[1], "type") = Str("banana") /\ Get(OutSecs[1], "type") = Str("banana")
  /\ Prop(InSecs[2], "type") = Undef /\ Get(OutSecs[2], "type") = Str("other")

\* C3 (as claimed): after sanitizeSchema every element's type, text, alt and
\* intent are strings, whatever came in.
C3_AllFourStrings ==
  (Sanitized /\ IsObject(x0)) =>
    \A j \in 1..Len(OutSecs) : \A m \in 1..Len(OutEls(j)) :
      \A k \in {"type", "text", "alt", "intent"} : IsString(Get(OutEls(j)[m], k))

\* C3 (amended): after sanitizeSchema every element has the four fields,
\* none of them null or undefined; text, alt and intent are strings; type is
\* "TEXT" when the incoming type was falsy or absent and otherwise the
\* incoming type unchanged, so it is a string only if it came in as one.
C3_FieldsPresent ==
  (Sanitized /\ IsObject(x0)) =>
    /\ SameShape
    /\ \A j \in 1..Len(OutSecs) : \A m \in 1..Len(OutEls(j)) :
         LET e == OutEls(j)[m]
             ty == Prop(InEls(j)[m], "type")
         IN /\ \A k \in {"type", "text", "alt", "intent"} : ~IsNullish(Get(e, k))
            /\ \A k \in {"text", "alt", "intent"} : IsString(Get(e, k))
            /\ Get(e, "type") = IF Truthy(ty) THEN ty ELSE Str("TEXT")

\* an element that came with a number as type and without alt, sanitized
C3_Witness ==
  /\ pc = "once" /\ IsObject(x0) /\ Len(InSecs) >= 1 /\ Len(InEls(1)) >= 1
  /\ Prop(InEls(1)[1], "type") = Num(7)
  /\ Prop(InEls(1)[1], "alt") = Undef
  /\ Get(OutEls(1)[1], "type") = Num(7)
  /\ Get(OutEls(1)[1], "alt") = Str("")

\* C4: sanitizing the sanitized value again gives a value structurally
\* equal to it.
C4_Idempotent == pc = "twice" => ret = ret1

\* a value the first call changed, sanitized twice
C4_Witness == pc = "twice" /\ IsObject(x0) /\ ret1 # x0 /\ Len(InSecs) >= 1

\* C5 (as claimed): the sanitized value holds no property outside the
\* schema: only page_intent and sections at the top, only id, type,
\* section_intent and elements in a section, only type, text, alt and
\* intent in an element; the keys error, raw and status are stripped.
C5_OnlySchemaKeys ==
  (npc = "done" /\ IsObject(page)) =>
    /\ OwnKeys(page) \subseteq {"page_intent", "sections"}
    /\ \A j \in 1..Len(Get(page, "sections").a) :
         LET sec == Get(page, "sections").a[j] IN
         /\ OwnKeys(sec) \subseteq {"id", "type", "section_intent", "elements"}
         /\ \A m \in 1..Len(Get(sec, "elements").a) :
              OwnKeys(Get(sec, "elements").a[m]) \subseteq {"type", "text", "alt", "intent"}

\* C6 (as claimed): after sanitizeSchema the ids of the sections of a page
\* are pairwise distinct.
C6_IdsDistinct ==
  (Sanitized /\ IsObject(x0)) =>
    \A j, k \in 1..Len(OutSecs) :
      j # k => Get(OutSecs[j], "id") # Get(OutSecs[k], "id")

\* C6 (amended): after sanitizeSchema every section has a non-empty id; a
\* section that came with a truthy id keeps it, and two sections that both
\* came without one get different ids. Ids that came in may repeat, and may
\* equal an id made for another section.
C6_IdsPresent ==
  (Sanitized /\ IsObject(x0)) =>
    /\ SameShape
    /\ \A j \in 1..Len(OutSecs) :
         /\ Truthy(Get(OutSecs[j], "id"))
         /\ Truthy(Prop(InSecs[j], "id")) => Get(OutSecs[j], "id") = Prop(InSecs[j], "id")
    /\ \A j, k \in 1..Len(OutSecs) :
         (j # k /\ ~Truthy(Prop(InSecs[j], "id")) /\ ~Truthy(Prop(InSecs[k], "id")))
           => Get(OutSecs[j], "id") # Get(OutSecs[k], "id")

\* two sections that came without id, and a page where one came with one
C6_Witness ==
  /\ pc = "once" /\ IsObject(x0) /\ Len(InSecs) >= 2
  /\ ~Truthy(Prop(InSecs[1], "id")) /\ ~Truthy(Prop(InSecs[2], "id"))
  /\ Get(OutSecs[1], "id") = Str("sec_000") /\ Get(OutSecs[2], "id") = Str("sec_001")

\* the id the sanitizer is to make for array index i, written out
ExpectedId(i) ==
  CASE i = 0 -> "sec_000" [] i = 1 -> "sec_001" [] i = 2 -> "sec_002"
    [] i = 3 -> "sec_003" [] i = 4 -> "sec_004"

\* a valid value of an id or type: a non-empty string
ValidName(v) == IsString(v) /\ Truthy(v)

\* C7: for an input object, a section at array index i without id gets
\* "sec_" and i padded to three digits, a section without type gets
\* "other", an element without its fields gets type "TEXT" and text, alt and
\* intent ""; fields that are present and valid are kept as they are.
C7_Defaults ==
  (Sanitized /\ IsObject(x0)) =>
    /\ SameShape
    /\ \A j \in 1..Len(OutSecs) :
         LET sin == InSecs[j]
             sout == OutSecs[j]
         IN /\ Prop(sin, "id") = Undef => Get(sout, "id") = Str(ExpectedId(j - 1))
            /\ Prop(sin, "type") = Undef => Get(sout, "type") = Str("other")
            /\ \A k \in {"id", "type"} :
                 ValidName(Prop(sin, k)) => Get(sout, k) = Prop(sin, k)
            /\ IsString(Prop(sin, "section_intent"))
                 => Get(sout, "section_intent") = Prop(sin, "section_intent")
            /\ \A m \in 1..Len(OutEls(j)) :
                 LET ein == InEls(j)[m]
                     eout == OutEls(j)[m]
                 IN /\ Prop(ein, "type") = Undef => Get(eout, "type") = Str("TEXT")
                    /\ ValidName(Prop(ein, "type")) => Get(eout, "type") = Prop(ein, "type")
                    /\ \A k \in {"text", "alt", "intent"} :
                         /\ Prop(ein, k) = Undef => Get(eout, k) = Str("")
                         /\ IsString(Prop(ein, k)) => Get(eout, k) = Prop(ein, k)

\* sanitize({sections:[{elements:[{}]}]}) has returned the documented page
C7_Witness ==
  /\ pc = "once" /\ x0 = DefaultingExample
  /\ ret = ObjOf([page_intent |-> Str(""),
                  sections |-> Arr(<<ObjOf([id |-> Str("sec_000"), type |-> Str("other"),
                                            section_intent |-> Str(""),
                                            elements |-> Arr(<<ObjOf([type |-> Str("TEXT"),
                                                                      text |-> Str(""),
                                                                      alt |-> Str(""),
                                                                      intent |-> Str("")])>>)])>>)])

Places(x, c) == {i \in 1..Len(x) : x[i] = c}
Min(S) == CHOOSE i \in S : \A k \in S : i <= k
Max(S) == CHOOSE i \in S : \A k \in S : i >= k

\* a JSON value can be read from x, directly or from the span between its
\* first "{" and its last "}"
Parseable(x) ==
  \/ IsJsonText(x)
  \/ /\ Places(x, "{") # {} /\ Places(x, "}") # {}
     /\ Max(Places(x, "}")) > Min(Places(x, "{"))
     /\ IsJsonText(SubSeq(x, Min(Places(x, "{")), Max(Places(x, "}"))))

\* C9: normalizeToJSONObject never throws, and for a string from which no
\* JSON value can be parsed, directly or from the span between the first "{"
\* and the last "}", it returns {error: "Model did not return valid JSON",
\* raw: <the string>}.
C9_FailureEnvelope ==
  npc # "start" =>
    /\ npc # "thrown" /\ norm # Thrown
    /\ (reply.t = "text" /\ ~Parseable(reply.x)) =>
         norm = ObjOf([error |-> Str("Model did not return valid JSON"), raw |-> reply])

\* a reply with braces around something that is no JSON, normalized
C9_Witness ==
  /\ npc = "normalized" /\ reply = Text(<<Noise, "{", Noise, "}">>)
  /\ Get(norm, "raw") = reply /\ HasKey(norm, "error")

\* C10 (as claimed): for a string that is strictly valid JSON text,
\* normalizeToJSONObject returns the value the direct parse yields, whatever
\* kind of value that is.
C10_DirectParse ==
  (npc # "start" /\ reply.t = "text" /\ IsJsonText(reply.x)) => norm = JsonParse(reply.x)

\* the ways to read x as prefix + J + suffix: J = x[i..j] is the text of a
\* JSON object, no "{" before it and no "}" after it
ObjectSpans(x) ==
  {ij \in (1..Len(x)) \X (1..Len(x)) :
     /\ ij[1] <= ij[2]
     /\ IsJsonText(SubSeq(x, ij[1], ij[2]))
     /\ x[ij[1]] = "{"
     /\ \A k \in 1..(ij[1] - 1) : x[k] # "{"
     /\ \A k \in (ij[2] + 1)..Len(x) : x[k] # "}"}

\* C11 (as claimed): for every string prefix + J + suffix, J the
\* serialization of a JSON object, no "{" in prefix and no "}" in suffix,
\* normalizeToJSONObject returns the object J parses to.
C11_WrappedObject ==
  (npc # "start" /\ reply.t = "text") =>
    \A ij \in ObjectSpans(reply.x) : norm = JsonParse(SubSeq(reply.x, ij[1], ij[2]))

\* C11 (amended): the same, for a string that is not valid JSON text as a
\* whole; a string that is valid JSON as a whole yields the value of the
\* direct parse, the array around J when prefix and suffix are brackets.
C11_WrappedObjectUnlessJson ==
  (npc # "start" /\ reply.t = "text") =>
    \A ij \in ObjectSpans(reply.x) :
      norm = IF IsJsonText(reply.x) THEN JsonParse(reply.x)
             ELSE JsonParse(SubSeq(reply.x, ij[1], ij[2]))

\* prose, a stray brace, an object with a member, prose: the object is found
C11_Witness ==
  /\ npc = "normalized"
  /\ reply = Text(<<Noise, "}", Noise, "{", StrLit, ":", "1", "}", Noise, "{">>)
  /\ norm = ObjOf([sections |-> Num(1)])

\* the run of the merged-structure request has begun
MergeRunning == merge.pc # "off"

\* AI call c got a response with a non-success status
NonSuccess(c) == merge.status[c] # 0 /\ ~ResOk(merge.status[c])

\* the request ended as a failure reported to the caller
EndedAsFailure == merge.pc = "done" /\ merge.resp.status >= 400

\* the items of sequence s
Range(s) == {s[i] : i \in 1..Len(s)}

\* C12 (as claimed): in the merged-structure operation a failed external
\* call, an AI reply with a non-success HTTP status included, aborts the
\* pipeline: once the body of such a reply is read no later stage is started
\* (no merge call after a failed vision call) and the request ends as a
\* failure.
C12_FailureAborts ==
  MergeRunning =>
    /\ (NonSuccess("vision") /\ merge.pc # "vision") =>
         ("merge" \notin Range(merge.started) /\ EndedAsFailure)
    /\ (NonSuccess("merge") /\ merge.pc # "merge") => EndedAsFailure

\* s is an initial part of t
IsPrefix(s, t) == Len(s) <= Len(t) /\ s = SubSeq(t, 1, Len(s))

\* C13: in every run of merged-structure the external operations are started
\* in the order render, screenshot, vision call, merge call, each at most
\* once and each only after the one before it completed, so that at most one
\* is in flight; the response of the completed pipeline (line 124) is given
\* only after the merge call completed.
C13_SequentialPipeline ==
  MergeRunning =>
    /\ IsPrefix(merge.started, MergeOps)
    /\ IsPrefix(merge.completed, merge.started)
    /\ Len(merge.started) <= Len(merge.completed) + 1
    /\ (Len(merge.started) > Len(merge.completed) /\ merge.pc # "done") =>
         merge.pc = merge.started[Len(merge.started)]
    /\ (merge.pc = "done" /\ merge.resp.status = 200) => merge.completed = MergeOps

\* a run that went through all four operations and answered 200
C13_Witness ==
  /\ MergeRunning /\ merge.pc = "done" /\ merge.resp.status = 200
  /\ merge.started = MergeOps /\ merge.completed = MergeOps

\* C18: an AI call in flight when its timeout elapses is aborted: postToAI
\* returns no value but raises, the handler goes no further (no later
\* operation is started) and the request ends with the wrapper's 500.
C18_TimeoutAborts ==
  MergeRunning =>
    \A c \in AiCalls :
      merge.timer[c] = "fired" =>
        /\ merge.returned[c] = Undef
        /\ c \notin Range(merge.completed)
        /\ merge.started[Len(merge.started)] = c
        /\ merge.phase = "none" /\ merge.pc = "done"
        /\ merge.resp = json(ObjOf([error |-> Str("Handler failed")]), 500)

\* the vision call timed out while its body was being read
C18_Witness ==
  /\ MergeRunning /\ merge.timer["vision"] = "fired" /\ merge.status["vision"] = 200
  /\ merge.pc = "done" /\ merge.resp.status = 500 /\ merge.started = <<"render", "screenshot", "vision">>

\* C19: a call of a wrapped handler always yields a response and no error
\* escapes: a JSON error response with status 500 when the handler throws,
\* the JSON 500 "Handler returned no response" when it returns null or
\* undefined, and otherwise the handler's own response, unchanged.
C19_AlwaysResponse ==
  (safe.pc = "returned") =>
    /\ safe.result # Thrown /\ safe.result.t = "response"
    /\ safe.fn.kind = "throws" =>
         /\ safe.result.status = 500
         /\ OwnKeys(safe.result.body) = {"error"}
         /\ Truthy(Get(safe.result.body, "error"))
    /\ (safe.fn.kind = "returns" /\ safe.fn.v \in {Null, Undef}) =>
         safe.result = json(ObjOf([error |-> Str("Handler returned no response")]), 500)
    /\ (safe.fn.kind = "returns" /\ safe.fn.v \notin {Null, Undef}) =>
         safe.result = safe.fn.v

\* a handler that threw an error with a message, answered with that message
C19_Witness ==
  /\ safe.pc = "returned" /\ safe.fn = [kind |-> "throws", v |-> ErrorOf("boom")]
  /\ safe.result = json(ObjOf([error |-> Str("boom")]), 500)

\* parameter k is present in p, and its string value
Present(p, k) == p[k].t \notin {"undefined", "null"}
StringValue(p, k) == IF Present(p, k) THEN <<String(p[k])>> ELSE <<>>

\* p and q hold the same allow-listed parameters with the same string values
SameAllowed(p, q) ==
  \A i \in 1..Len(allowlist) : StringValue(p, allowlist[i]) = StringValue(q, allowlist[i])

\* C16: buildCacheKey depends only on the operation and the allow-listed
\* parameters: two parameter sets with the same string value for every
\* allow-listed parameter present give the same key for the same operation,
\* whatever else they carry, and two that differ in the string value of
\* target give different keys (no two inputs explored collide in the hash).
C16_KeyFromAllowlist ==
  key.pc = "both" =>
    /\ SameAllowed(key.p1, key.p2) => key.k1 = key.k2
    /\ StringValue(key.p1, allowlist[1]) # StringValue(key.p2, allowlist[1]) => key.k1 # key.k2

\* the target once as a number and once as a string, debug set in one call
\* only: one key, of the operation's name, a colon and the hash
C16_Witness ==
  /\ key.pc = "both"
  /\ key.p1[allowlist[1]] = Num(1) /\ key.p2[allowlist[1]] = Text(<<"1">>)
  /\ Present(key.p1, DebugParam) /\ ~Present(key.p2, DebugParam)
  /\ SameAllowed(key.p1, key.p2)
  /\ key.k1 = key.k2 /\ SubSeq(key.k1, 1, Len(key.output) + 1) = key.output \o <<":">>
  /\ Len(key.k1) > Len(key.output) + 1

\* the two requests are being served
ServeRunning == serve.pc = "on"

\* request i did the work of its handler and has its final output
Worked(i) == serve.reqs[i].pc = "done" /\ serve.reqs[i].out # Undef

\* C14 (as claimed): every output operation (html, structure, screenshot,
\* ai-describe, screenshotandai-describe, merged-structure) looks up the
\* cache before any work, and on a miss stores its final output once the
\* work succeeded.
C14_CacheBracketsEveryOutput ==
  ServeRunning =>
    \A i \in Reqs :
      /\ serve.reqs[i].trace # <<>> => serve.reqs[i].trace[1] = "get"
      /\ Worked(i) => serve.reqs[i].trace[Len(serve.reqs[i].trace)] = "put"

\* the two requests have one fingerprint, both missed, both finished their work
BothMissed ==
  /\ serve.reqs[1].cacheKey # <<>> /\ serve.reqs[1].cacheKey = serve.reqs[2].cacheKey
  /\ \A i \in Reqs : ~serve.reqs[i].hit /\ Worked(i)

\* C17: two concurrent requests with one fingerprint that both miss each run
\* their own lookup, computation and write, neither using the other's
\* output, and when both have finished the entry holds the value of the
\* write that took effect last.
C17_EachComputesLastWriteWins ==
  (ServeRunning /\ BothMissed) =>
    /\ \A i \in Reqs :
         serve.reqs[i].trace = <<"get">> \o ExternalOps[serve.reqs[i].output] \o <<"put">>
    /\ serve.writes # <<>> =>
         LET last == serve.reqs[serve.writes[Len(serve.writes)]] IN
         Lookup(serve.store, last.cacheKey) = CacheValueOf(last.output, last.out)

\* both missed, saw different versions of the page and wrote, request 1
\* after request 2: the entry is request 1's
C17_Witness ==
  /\ ServeRunning /\ BothMissed /\ serve.writes = <<2, 1>>
  /\ serve.reqs[1].out # serve.reqs[2].out
  /\ Lookup(serve.store, serve.reqs[1].cacheKey)
       = CacheValueOf(serve.reqs[1].output, serve.reqs[1].out)
  /\ serve.reqs[1].resp.body # serve.reqs[2].resp.body

\* the clear-cache request is being served
ClearRunning == clear.pc # "off"

\* key k begins with the trimmed prefix of the request
HasPrefix(k) ==
  LET p == Trim(clear.prefix) IN Len(p) <= Len(k) /\ SubSeq(k, 1, Len(p)) = p

\* C15 (as claimed): cache unavailability never fails a request: when the
\* store is not configured or one of its operations fails, the request ends
\* with the response it gives without a cache and with no error.
C15_CacheNeverFailsRequest ==
  (ClearRunning /\ clear.pc = "done" /\ (clear.failed \/ ~clear.KV_CACHE)) =>
    (clear.resp.status = 200 /\ ~HasKey(clear.resp.body, "error"))

\* what holds once cacheDeletePrefix has returned
DeletedExactly ==
  (ClearRunning /\ clear.returned # Undef) =>
    /\ clear.store = {k \in clear.before : ~HasPrefix(k)}
    /\ clear.returned = ObjOf([deleted |-> Num(Cardinality({k \in clear.before : HasPrefix(k)}))])
    /\ ~clear.KV_CACHE => clear.returned = ObjOf([deleted |-> Num(0)])

\* C20: cacheDeletePrefix ends for every finite store, and with no other
\* writer, once it has returned no key with the prefix remains, every other
\* key is still there, and deleted is the number of keys that had the prefix
\* (0 without a store).
C20_DeletesPrefix == [](DeletedExactly) /\ (ClearRunning => <>(clear.pc = "done"))

\* three keys with the prefix deleted over two pages, one other key kept
C20_Witness ==
  /\ ClearRunning /\ clear.returned = ObjOf([deleted |-> Num(3)])
  /\ clear.before = {<<"a">>, <<"a", "a">>, <<"a", "b">>} /\ clear.store = {}
  /\ clear.cursor = Undef

\* the string with the first occurrence of the token, if any, replaced by
\* the value, and every other unit as it was
FirstOnly(str, token, value) ==
  IF token \notin Range(str) THEN str
  ELSE LET i == CHOOSE n \in 1..Len(str) : str[n] = token /\ \A m \in 1..(n - 1) : str[m] # token
       IN SubSeq(str, 1, i - 1) \o value \o SubSeq(str, i + 1, Len(str))

\* C21: in the vision prompt and in the merge prompt, each placeholder is
\* replaced at its first occurrence by its value, and every other occurrence
\* and every other unit of the template stays as it was.
C21_FirstOccurrenceOnly ==
  /\ prompt.pc \in {"vision", "merge"} =>
       prompt.finalVisionPrompt =
         buildPromptWithSource(
           FirstOnly(FirstOnly(visionPrompt(prompt.prompt), ModeToken, <<"vision-only">>),
                     DomToken, StringifyDom(prompt.domStructure)),
           PromptTarget)
  /\ prompt.pc = "merge" =>
       prompt.mergePrompt =
         FirstOnly(FirstOnly(FirstOnly(MERGE_PROMPT, ModeToken, <<"merge">>),
                             DomToken, StringifyDom(prompt.domStructure)),
                   VisionToken, StringifyVision(prompt.visionStructure))

\* C30: the merge prompt is the template with the serialized DOM structure
\* at the place of {{DOM_STRUCTURE_JSON}} and the serialized vision
\* structure at the place of {{VISION_STRUCTURE_JSON}}, whatever the page
\* holds.
C30_MergePromptPlaces ==
  prompt.pc = "merge" =>
    prompt.mergePrompt =
      <<MERGE_PROMPT[1], MERGE_PROMPT[2]>> \o StringifyDom(prompt.domStructure)
      \o <<MERGE_PROMPT[4]>> \o StringifyVision(prompt.visionStructure)
      \o <<MERGE_PROMPT[6]>>

\* C22: a request that gives no fullPage has its screenshot taken with
\* fullPage false, whatever its method and operation.
C22_FullPageDefaultsFalse ==
  (capture.pc = "shot" /\ capture.given = Undef) => capture.options = FALSE

\* C27: when renderPageGetHtml or renderAndScreenshot has returned or
\* thrown after launching its browser, it has called browser.close().
C27_BrowserAlwaysClosed ==
  (launch.pc = "done" /\ launch.launched) => launch.closeCalled

\* the request ended with an error response
EndedWithError(i) == serve.reqs[i].pc = "done" /\ serve.reqs[i].resp.status # 200

\* the values a handler stores for the output of work that succeeded
StoredOutputs == {CacheValueOf(o, OutputOf(o, v)) : o \in CachedOutputs, v \in Versions}

\* C28: a request that ended with an error response has written nothing
\* to the cache; a request that wrote did so after its render or
\* screenshot was begun and had given its output; and every entry of the
\* cache is the stored form of such an output.
C28_ErrorsNeverCached ==
  ServeRunning =>
    /\ \A i \in Reqs :
         /\ EndedWithError(i) =>
              i \notin Range(serve.writes) /\ "put" \notin Range(serve.reqs[i].trace)
         /\ i \in Range(serve.writes) =>
              /\ serve.reqs[i].out # Undef
              /\ \E n \in 1..Len(serve.reqs[i].trace) :
                   /\ serve.reqs[i].trace[n] = "put"
                   /\ n > 1
                   /\ serve.reqs[i].trace[n - 1] \in {"render", "screenshot"}
    /\ \A e \in serve.store : e.v \in StoredOutputs

\* a request of a cached operation failed in its render or was refused
\* while the other request's output was written to the store
C28_Witness ==
  /\ ServeRunning
  /\ serve.store # {}
  /\ \E i \in Reqs :
       /\ serve.reqs[i].output \in CachedOutputs
       /\ EndedWithError(i)
       /\ serve.reqs[i].resp.status = 500
       /\ Range(serve.reqs[i].trace) \cap {"render", "screenshot"} # {}

\* the request carries no target: absent, null or the empty string
NoTarget(i) == ~Truthy(serve.reqs[i].target)

\* the keys of a cached operation's requests without a target
KeysWithoutTarget ==
  {buildCacheKey(OutputName[o], ParamsOf(t)) :
     o \in CachedOutputs, t \in {Undef, Null, Text(<<>>)}}

\* C29: a request to a cached operation that carries no target is never
\* answered from the cache and ends with an error, and no entry is ever
\* written under a key built from parameters without a target.
C29_NoTargetNeverHit ==
  ServeRunning =>
    /\ \A i \in Reqs :
         (NoTarget(i) /\ serve.reqs[i].output \in CachedOutputs) =>
           /\ ~serve.reqs[i].hit
           /\ serve.reqs[i].pc = "done" => serve.reqs[i].resp.status \in {400, 500}
    /\ \A e \in serve.store : e.k \notin KeysWithoutTarget

\* a request without a target looked its key up in a store that holds the
\* page of the same operation, and was answered 400
C29_Witness ==
  /\ ServeRunning
  /\ serve.store # {}
  /\ \E i \in Reqs :
       /\ NoTarget(i) /\ serve.reqs[i].output \in CachedOutputs
       /\ serve.reqs[i].pc = "done"
       /\ "get" \in Range(serve.reqs[i].trace)
       /\ serve.reqs[i].resp.status = 400

\* no two links of the sequence have the same text and href
NoTwoAlike(links) ==
  \A i, j \in 1..Len(links) :
    (links[i].text = links[j].text /\ links[i].href = links[j].href) => i = j

\* the page is two anchors with the same text, not empty when cleaned, and
\* the same href, not empty and not a fragment, and nothing else
TwoSameAnchors ==
  \E a \in Anchors :
    /\ parse.html = a \o a
    /\ cleanText(Inner(a, [open |-> 1, close |-> Len(a)])) # <<>>
    /\ AttrValue(a[1].attrs, "href") # ""
    /\ ~StartsWithHash(AttrValue(a[1].attrs, "href"))

\* C23: the links extractLinks returns, in structure.js and in
\* htmlParser.js, hold no two with the same text and href, and a page of
\* two such anchors and nothing else gives exactly one link.
C23_LinksDeduplicated ==
  /\ "extractLinks" \in parse.ran =>
       /\ NoTwoAlike(parse.links)
       /\ TwoSameAnchors => Len(parse.links) = 1
  /\ "extractLinksParser" \in parse.ran =>
       /\ NoTwoAlike(parse.parserLinks)
       /\ TwoSameAnchors => Len(parse.parserLinks) = 1

\* the containers of the page, by their place among the eight expressions,
\* in which a heading or an image is found
Yielding(html) ==
  {n \in 1..Len(heroPatterns) :
     /\ heroContent(html, n) # <<>>
     /\ \/ FromContainer(heroContent(html, n)[1]).HEADING # Null
        \/ FromContainer(heroContent(html, n)[1]).IMAGE # Null}

\* C25: when some container yields a heading or an image, the heading, the
\* image and the button extractHero returns are those of the first such
\* container and of no other.
C25_HeroFromOneContainer ==
  ("extractHero" \in parse.ran /\ Yielding(parse.html) # {}) =>
    parse.hero = FromContainer(heroContent(parse.html, Min(Yielding(parse.html)))[1])

\* the places in cleanHtml of the opening tags of the candidate blocks
CandidatePlaces(s) ==
  {m.open : m \in UNION {Range(sectionMatches(s, n)) : n \in 1..Len(sectionPatterns)}}

\* the block's own class attribute holds hero, header, footer or nav
OwnClassExcluded(tok) == HasAttr(tok, "class", {"hero", "header", "footer", "nav"})

\* the content of the candidate whose opening tag is at this place
ContentAt(s, at) == SubSeq(s, at + 1, FirstClose(s, s[at].tag, at + 1) - 1)

\* C26: no section returned comes from a block whose own class holds hero,
\* header, footer or nav, and every candidate block without such a class
\* that has a heading, a text or a list is returned, whatever the classes
\* of the elements inside it.
C26_SkipsByOwnClass ==
  "extractSections" \in parse.ran =>
    LET s == cleanHtml(parse.html) IN
    /\ \A n \in 1..Len(parse.sections) : ~OwnClassExcluded(s[parse.sections[n].at])
    /\ \A at \in CandidatePlaces(s) :
         (~OwnClassExcluded(s[at]) /\ NotEmpty(sectionOf(ContentAt(s, at), 0, at))) =>
           \E n \in 1..Len(parse.sections) : parse.sections[n].at = at

\* the text blocks of a parsed section
TextBlocks(section) == IF "TEXTS" \in DOMAIN section THEN section.TEXTS ELSE <<>>

\* C24: for the scenario page, the structure that the parser of the
\* structure and merged-structure operations returns has the logo's src,
\* exactly one section, with the heading's text and exactly one text block
\* equal to the paragraph, and the footer's text equal to the cleaned
\* paragraph of the footer.
C24_ScenarioParsed ==
  "parseHTML" \in parse.ran =>
    \A src \in LogoSources, logoFirst \in BOOLEAN, pClass \in ParagraphClasses :
      parse.html = Scenario(src, logoFirst, pClass) =>
        LET P == parse.domStructure.PAGE IN
        /\ P.HEADER.LOGO # Null /\ P.HEADER.LOGO.src = src
        /\ Len(P.SECTION) = 1
        /\ P.SECTION[1].HEADING # Null /\ P.SECTION[1].HEADING.text = HeadingText
        /\ P.FOOTER.TEXT # Null /\ P.FOOTER.TEXT.text = CopyrightText
        /\ TextBlocks(P.SECTION[1]) = <<ParagraphText>>

====
